---- MODULE Spec2Model ----
(***************************************************************************)
(* Verification model of the benchmark harness:                            *)
(*   - crates/harness/src/scheduler.rs   JobStatus, BuildScheduler         *)
(*   - crates/harness/src/build_matrix.rs BuildJob                         *)
(*   - crates/harness/src/config.rs, config/generator.rs                   *)
(*   - crates/harness/src/pathfinder.rs  PathfinderSelector                *)
(*   - crates/harness/src/measurement.rs Measurement, stats, results       *)
(*   - crates/harness/src/bin/full_pathfinder_execution.rs                 *)
(*   - crates/analysis/src/basic.rs, frequentist.rs                        *)
(* Strings are TLA+ strings; prefix and substring tests are computed on    *)
(* them character by character.                                            *)
(***************************************************************************)
EXTENDS Integers, Sequences, FiniteSets, TLC

VARIABLES
    statuses,     \* BuildScheduler.statuses: job_id -> JobStatus
    gen_configs,  \* ConfigGenerator.configs
    requested,    \* the budget handed to PathfinderSelector::new
    selector,     \* PathfinderSelector {strategy, max_configs}
    input,        \* the slice handed to the last select call
    selected,     \* the result of the last select call (indices into input)
    generators,   \* two independent ConfigGenerator values: name -> configs
    gen_calls,    \* how often generate_matrix was called on each of them
    matrix_input, \* the configs handed to BuildMatrix::generate
    build_matrix, \* the BuildMatrix it returned (its jobs)
    report,       \* the raw output handed to Measurement::from_output
    parsed,       \* what from_output returned for it
    samples,      \* the slice handed to MeasurementStats::from_measurements
    stats_result, \* what from_measurements returned for it
    stable,       \* the last is_stable call: its threshold and its answer
    job_result,   \* the JobResult being filled: {job, measurements, stats}
    results,      \* ResultsCollection.results
    exec_config,  \* the ExecutionConfig of the execute_job call
    iteration,    \* execute_job: the loop variable
    runs_started, \* execute_job: how many runs were launched
    run_output,   \* execute_job: what the last finished run returned
    pc,           \* execute_job: where the call stands
    returned,     \* execute_job: its return value
    study_jobs,   \* main: matrix.jobs()
    idx,          \* main: how many jobs of the matrix the loop has taken
    completed,    \* main: the counter of completed jobs
    failed,       \* main: the counter of failed jobs
    progress,     \* main: the progress lines printed, one per job taken
    anova_groups, \* the groups handed to the last anova_one_way call
    anova_result, \* what it returned
    boot_args,    \* the arguments of the last bootstrap_ci call
    boot_result   \* what it returned

schedVars == <<statuses>>
selVars == <<gen_configs, requested, selector, input, selected>>
genVars == <<generators, gen_calls, matrix_input, build_matrix>>
parseVars == <<report, parsed>>
statsVars == <<samples, stats_result, stable>>
resultVars == <<job_result, results>>
execVars == <<exec_config, iteration, runs_started, run_output, pc, returned>>
studyVars == <<study_jobs, idx, completed, failed, progress>>

analysisVars == <<anova_groups, anova_result, boot_args, boot_result>>

vars == <<schedVars, selVars, genVars, parseVars, statsVars, resultVars, execVars,
          studyVars, analysisVars>>

\* the state of the components modelled after the selector
laterVars ==
    <<genVars, parseVars, statsVars, resultVars, execVars, studyVars, analysisVars>>

\* what the actions of one component leave alone
outsideGen ==
    <<schedVars, selVars, parseVars, statsVars, resultVars, execVars, studyVars,
      analysisVars>>
outsideParse ==
    <<schedVars, selVars, genVars, statsVars, resultVars, execVars, studyVars,
      analysisVars>>
outsideStats ==
    <<schedVars, selVars, genVars, parseVars, resultVars, execVars, studyVars,
      analysisVars>>
outsideResults ==
    <<schedVars, selVars, genVars, parseVars, statsVars, execVars, studyVars,
      analysisVars>>
outsideAnalysis ==
    <<schedVars, selVars, genVars, parseVars, statsVars, resultVars, execVars,
      studyVars>>
outsideExec ==
    <<schedVars, selVars, genVars, parseVars, statsVars, results, studyVars,
      analysisVars>>

(***************************************************************************)
(* Bounds of the model.                                                    *)
(***************************************************************************)
\* number of jobs of the pool a build matrix is drawn from
MaxJobs == 3
\* durations passed to mark_success range over 1..MaxDuration
MaxDuration == 2
\* requested budgets range over 0..MaxK, the default budget and LargeK
MaxK == 4
\* a budget above the size of the generated set
LargeK == 100
\* length of the hand-made input lists given to select
MaxLen == 3
\* generate_matrix is called at most MaxCalls times on one generator
MaxCalls == 2
\* length of the hand-made config lists given to BuildMatrix::generate
MaxConfigs == 2
\* number of lines of a run's report
MaxLines == 4
\* length of the measurement lists given to from_measurements
MaxSamples == 3
\* number of measurements taken in one study
MaxMeasurements == 3
\* number of results added to one ResultsCollection
MaxResults == 2
\* min_iterations and max_iterations of an ExecutionConfig range over
\* 0..MaxIterations
MaxIterations == 3
\* a study runs over a matrix of at most MaxStudyJobs jobs
MaxStudyJobs == 2
\* the number of bits of the significand of a float (f64 has 53)
MantissaBits == 4
\* the largest whole number every significand holds
LargestObservation == 2^MantissaBits - 1
\* anova_one_way is called with at most MaxGroups groups
MaxGroups == 3
\* bootstrap_ci is called with at most MaxData observations
MaxData == 17
\* .. and with at most MaxResamples resamples
MaxResamples == 3

\* the names of two independently constructed generators
GeneratorIds == {"first", "second"}

(***************************************************************************)
(* Option<T>                                                               *)
(***************************************************************************)
None == [some |-> FALSE]
Some(v) == [some |-> TRUE, value |-> v]

Min(a, b) == IF a <= b THEN a ELSE b
Max(a, b) == IF a >= b THEN a ELSE b

(***************************************************************************)
(* str::starts_with, str::contains                                         *)
(***************************************************************************)
StartsWith(s, p) == Len(p) <= Len(s) /\ SubSeq(s, 1, Len(p)) = p

Contains(s, p) ==
    \E i \in 1..(Len(s) - Len(p) + 1) : SubSeq(s, i, i + Len(p) - 1) = p

(***************************************************************************)
(* config.rs: the six factors and OptimizationConfig.  A variant of a      *)
(* fieldless enum is represented by its name.                              *)
(***************************************************************************)
\* OptLevel::to_profile_string
OptLevelToProfileString(o) ==
    CASE o = "O0" -> "0"
      [] o = "O1" -> "1"
      [] o = "O2" -> "2"
      [] o = "O3" -> "3"
      [] o = "Os" -> "s"
      [] o = "Oz" -> "z"

\* CodegenUnits::value: the discriminant as u32
CodegenUnitsValue(u) ==
    CASE u = "One" -> 1
      [] u = "Four" -> 4
      [] u = "Sixteen" -> 16
      [] u = "TwoFiftySix" -> 256

\* {:?} of a fieldless enum with derive(Debug): the variant's name
DebugName(v) == v

RECURSIVE DecimalString(_)
\* {} of a u32: its decimal digits
DecimalString(n) ==
    LET digit == SubSeq("0123456789", (n % 10) + 1, (n % 10) + 1)
    IN IF n < 10 THEN digit ELSE DecimalString(n \div 10) \o digit

\* char::to_lowercase on one ASCII character
LowerChar(c) ==
    LET upper == "ABCDEFGHIJKLMNOPQRSTUVWXYZ"
        lower == "abcdefghijklmnopqrstuvwxyz"
        at == {i \in 1..Len(upper) : SubSeq(upper, i, i) = c}
    IN IF at = {} THEN c
       ELSE LET i == CHOOSE i \in at : TRUE IN SubSeq(lower, i, i)

RECURSIVE ToLowercase(_)
\* str::to_lowercase
ToLowercase(s) ==
    IF Len(s) = 0 THEN ""
    ELSE LowerChar(SubSeq(s, 1, 1)) \o ToLowercase(SubSeq(s, 2, Len(s)))

\* OptimizationConfig::new
OptimizationConfigNew(id, opt_level, lto, codegen_units, pgo, target_cpu, strip) ==
    [id |-> id, opt_level |-> opt_level, lto |-> lto,
     codegen_units |-> codegen_units, pgo |-> pgo,
     target_cpu |-> target_cpu, strip |-> strip]

\* OptimizationConfig::baseline
Baseline ==
    OptimizationConfigNew("baseline", "O0", "Off", "Sixteen", "Off", "Generic", "None")

\* OptimizationConfig::standard_release
StandardRelease ==
    OptimizationConfigNew("standard-release", "O3", "Off", "Sixteen", "Off",
                          "Generic", "None")

(***************************************************************************)
(* config/generator.rs: ConfigGenerator.  Each add_* takes the configs     *)
(* pushed so far and returns them with its own pushed behind, in the       *)
(* order of its loops.                                                     *)
(***************************************************************************)
\* ConfigGenerator::add_baseline_configs
add_baseline_configs(cs) == cs \o <<Baseline, StandardRelease>>

\* ConfigGenerator::add_single_factor_variations
add_single_factor_variations(cs) ==
    LET base == StandardRelease
        opts == <<"O0", "O1", "O2", "Os", "Oz">>
        ltos == <<"Thin", "Fat">>
        units == <<"One", "Four", "TwoFiftySix">>
        cpus == <<"Native", "Specific">>
        strips == <<"Symbols", "Debuginfo">>
    IN cs
       \o [i \in 1..Len(opts) |->
             OptimizationConfigNew("opt-" \o OptLevelToProfileString(opts[i]),
                 opts[i], base.lto, base.codegen_units, base.pgo,
                 base.target_cpu, base.strip)]
       \o [i \in 1..Len(ltos) |->
             OptimizationConfigNew(ToLowercase("lto-" \o DebugName(ltos[i])),
                 base.opt_level, ltos[i], base.codegen_units, base.pgo,
                 base.target_cpu, base.strip)]
       \o [i \in 1..Len(units) |->
             OptimizationConfigNew(
                 "codegen-" \o DecimalString(CodegenUnitsValue(units[i])),
                 base.opt_level, base.lto, units[i], base.pgo,
                 base.target_cpu, base.strip)]
       \o [i \in 1..Len(cpus) |->
             OptimizationConfigNew(ToLowercase("cpu-" \o DebugName(cpus[i])),
                 base.opt_level, base.lto, base.codegen_units, base.pgo,
                 cpus[i], base.strip)]
       \o [i \in 1..Len(strips) |->
             OptimizationConfigNew(ToLowercase("strip-" \o DebugName(strips[i])),
                 base.opt_level, base.lto, base.codegen_units, base.pgo,
                 base.target_cpu, strips[i])]

\* ConfigGenerator::add_lto_variations
add_lto_variations(cs) ==
    LET opts == <<"O2", "O3">>
        ltos == <<"Thin", "Fat">>
        units == <<"One", "Four">>
    IN cs
       \o [k \in 1..(Len(opts) * Len(ltos)) |->
             LET o == opts[((k - 1) \div Len(ltos)) + 1]
                 l == ltos[((k - 1) % Len(ltos)) + 1]
             IN OptimizationConfigNew(
                    ToLowercase("lto-" \o DebugName(l) \o "-opt"
                                \o OptLevelToProfileString(o)),
                    o, l, "Sixteen", "Off", "Generic", "None")]
       \o [k \in 1..(Len(ltos) * Len(units)) |->
             LET l == ltos[((k - 1) \div Len(units)) + 1]
                 u == units[((k - 1) % Len(units)) + 1]
             IN OptimizationConfigNew(
                    ToLowercase("lto-" \o DebugName(l) \o "-cg"
                                \o DecimalString(CodegenUnitsValue(u))),
                    "O3", l, u, "Off", "Generic", "None")]

\* ConfigGenerator::add_size_optimizations
add_size_optimizations(cs) ==
    LET opts == <<"Os", "Oz">>
    IN cs
       \o [k \in 1..(Len(opts) * 2) |->
             LET o == opts[((k - 1) \div 2) + 1]
             IN IF (k - 1) % 2 = 0
                THEN OptimizationConfigNew(
                         "size-" \o OptLevelToProfileString(o) \o "-lto",
                         o, "Fat", "One", "Off", "Generic", "Symbols")
                ELSE OptimizationConfigNew(
                         "size-" \o OptLevelToProfileString(o) \o "-strip",
                         o, "Thin", "Sixteen", "Off", "Generic", "Debuginfo")]
       \o << OptimizationConfigNew("size-ultra", "Oz", "Fat", "One", "Off",
                                   "Generic", "Debuginfo") >>

\* ConfigGenerator::add_performance_optimizations
add_performance_optimizations(cs) ==
    LET ltos == <<"Thin", "Fat">>
    IN cs
       \o << OptimizationConfigNew("perf-ultra", "O3", "Fat", "One", "Off",
                                   "Native", "Symbols") >>
       \o [i \in 1..Len(ltos) |->
             OptimizationConfigNew(
                 ToLowercase("perf-native-lto-" \o DebugName(ltos[i])),
                 "O3", ltos[i], "One", "Off", "Native", "None")]
       \o << OptimizationConfigNew("perf-balanced", "O3", "Thin", "Four", "Off",
                                   "Generic", "None") >>

\* ConfigGenerator::add_pgo_variations
add_pgo_variations(cs) ==
    LET opts == <<"O2", "O3">>
        ltos == <<"Thin", "Fat">>
    IN cs
       \o [i \in 1..Len(opts) |->
             OptimizationConfigNew(
                 "pgo-opt" \o OptLevelToProfileString(opts[i]),
                 opts[i], "Off", "Sixteen", "On", "Generic", "None")]
       \o [i \in 1..Len(ltos) |->
             OptimizationConfigNew(ToLowercase("pgo-lto-" \o DebugName(ltos[i])),
                 "O3", ltos[i], "Sixteen", "On", "Generic", "None")]
       \o << OptimizationConfigNew("pgo-native", "O3", "Fat", "One", "On",
                                   "Native", "Symbols") >>

\* ConfigGenerator::add_codegen_variations
add_codegen_variations(cs) ==
    LET units == <<"One", "Four", "Sixteen">>
        opts == <<"O2", "O3">>
        stripUnits == <<"One", "Sixteen">>
    IN cs
       \o [k \in 1..(Len(units) * Len(opts)) |->
             LET u == units[((k - 1) \div Len(opts)) + 1]
                 o == opts[((k - 1) % Len(opts)) + 1]
             IN OptimizationConfigNew(
                    "cg" \o DecimalString(CodegenUnitsValue(u)) \o "-opt"
                         \o OptLevelToProfileString(o),
                    o, "Off", u, "Off", "Generic", "None")]
       \o [i \in 1..Len(stripUnits) |->
             OptimizationConfigNew(
                 "cg" \o DecimalString(CodegenUnitsValue(stripUnits[i])) \o "-strip",
                 "O3", "Thin", stripUnits[i], "Off", "Generic", "Symbols")]

\* ConfigGenerator::add_cpu_variations
add_cpu_variations(cs) ==
    LET cpus == <<"Native", "Specific">>
        opts == <<"O2", "O3">>
        cgCpus == <<"Native">>
        units == <<"One", "Four">>
    IN cs
       \o [k \in 1..(Len(cpus) * Len(opts)) |->
             LET c == cpus[((k - 1) \div Len(opts)) + 1]
                 o == opts[((k - 1) % Len(opts)) + 1]
             IN OptimizationConfigNew(
                    ToLowercase("cpu-" \o DebugName(c) \o "-opt"
                                \o OptLevelToProfileString(o)),
                    o, "Off", "Sixteen", "Off", c, "None")]
       \o [k \in 1..(Len(cgCpus) * Len(units)) |->
             LET c == cgCpus[((k - 1) \div Len(units)) + 1]
                 u == units[((k - 1) % Len(units)) + 1]
             IN OptimizationConfigNew(
                    "cpu-native-cg" \o DecimalString(CodegenUnitsValue(u)),
                    "O3", "Off", u, "Off", c, "None")]

\* ConfigGenerator::add_strip_variations
add_strip_variations(cs) ==
    LET strips == <<"Symbols", "Debuginfo">>
        opts == <<"O2", "O3", "Os">>
    IN cs
       \o [k \in 1..(Len(strips) * Len(opts)) |->
             LET st == strips[((k - 1) \div Len(opts)) + 1]
                 o == opts[((k - 1) % Len(opts)) + 1]
             IN OptimizationConfigNew(
                    ToLowercase("strip-" \o DebugName(st) \o "-opt"
                                \o OptLevelToProfileString(o)),
                    o, "Off", "Sixteen", "Off", "Generic", st)]
       \o [i \in 1..Len(strips) |->
             OptimizationConfigNew(
                 ToLowercase("strip-" \o DebugName(strips[i]) \o "-lto"),
                 "O3", "Fat", "One", "Off", "Generic", strips[i])]

\* an extreme tier that names its second configuration min-opt again
AddExtremeConfigsMinTwice(cs) ==
    cs \o << OptimizationConfigNew("min-opt", "O0", "Off", "TwoFiftySix", "Off",
                                   "Generic", "None"),
             OptimizationConfigNew("min-opt", "O3", "Fat", "One", "On",
                                   "Native", "Debuginfo"),
             OptimizationConfigNew("fast-compile", "O1", "Off", "TwoFiftySix",
                                   "Off", "Generic", "None") >>

\* ConfigGenerator::add_extreme_configs
add_extreme_configs(cs) ==
    cs \o << OptimizationConfigNew("min-opt", "O0", "Off", "TwoFiftySix", "Off",
                                   "Generic", "None"),
             OptimizationConfigNew("max-opt", "O3", "Fat", "One", "On",
                                   "Native", "Debuginfo"),
             OptimizationConfigNew("fast-compile", "O1", "Off", "TwoFiftySix",
                                   "Off", "Generic", "None") >>

\* ConfigGenerator::add_two_factor_interactions
add_two_factor_interactions(cs) ==
    LET opts == <<"O1", "O2">>
        strips == <<"Symbols", "Debuginfo">>
        nativeUnits == <<"One", "Four", "Sixteen">>
        pgoUnits == <<"One", "Four">>
        sizeOpts == <<"Os", "Oz">>
    IN cs
       \o [k \in 1..(Len(opts) * Len(strips)) |->
             LET o == opts[((k - 1) \div Len(strips)) + 1]
                 st == strips[((k - 1) % Len(strips)) + 1]
             IN OptimizationConfigNew(
                    ToLowercase("opt" \o OptLevelToProfileString(o) \o "-strip-"
                                \o DebugName(st)),
                    o, "Off", "Sixteen", "Off", "Generic", st)]
       \o [i \in 1..Len(nativeUnits) |->
             OptimizationConfigNew(
                 "cg" \o DecimalString(CodegenUnitsValue(nativeUnits[i])) \o "-native",
                 "O3", "Off", nativeUnits[i], "Off", "Native", "None")]
       \o [i \in 1..Len(pgoUnits) |->
             OptimizationConfigNew(
                 "pgo-cg" \o DecimalString(CodegenUnitsValue(pgoUnits[i])),
                 "O3", "Off", pgoUnits[i], "On", "Generic", "None")]
       \o [i \in 1..Len(strips) |->
             OptimizationConfigNew(
                 ToLowercase("pgo-strip-" \o DebugName(strips[i])),
                 "O3", "Thin", "Sixteen", "On", "Generic", strips[i])]
       \o [i \in 1..Len(sizeOpts) |->
             OptimizationConfigNew(
                 "size-" \o OptLevelToProfileString(sizeOpts[i]) \o "-native",
                 sizeOpts[i], "Thin", "One", "Off", "Native", "Symbols")]
       \o << OptimizationConfigNew("balanced-perf", "O3", "Thin", "Four", "Off",
                                   "Native", "Symbols"),
             OptimizationConfigNew("balanced-size", "Os", "Fat", "One", "Off",
                                   "Generic", "Debuginfo"),
             OptimizationConfigNew("pgo-perf-ultra", "O3", "Fat", "One", "On",
                                   "Native", "Symbols"),
             OptimizationConfigNew("default-dev", "O1", "Off", "Sixteen", "Off",
                                   "Generic", "None") >>

\* a clear that leaves the earlier configs in place
ClearNothing(configs) == configs

\* self.configs.clear()
clear(configs) == <<>>

\* ConfigGenerator::new: no configs yet
ConfigGeneratorNew == <<>>

\* ConfigGenerator::generate_matrix on a generator holding configs: clear,
\* then the eleven tiers in order
generate_matrix(configs) ==
    add_two_factor_interactions(
     add_extreme_configs(
      add_strip_variations(
       add_cpu_variations(
        add_codegen_variations(
         add_pgo_variations(
          add_performance_optimizations(
           add_size_optimizations(
            add_lto_variations(
             add_single_factor_variations(
              add_baseline_configs(clear(configs))))))))))))

\* ConfigGenerator::count
count(configs) == Len(configs)

(***************************************************************************)
(* build_matrix.rs                                                         *)
(***************************************************************************)
BENCHMARKS ==
    << "ackermann", "fibonacci", "prime-sieve", "matrix-mult", "quicksort",
       "string-parse", "hashmap-ops", "file-io", "json-parse", "btreemap-ops" >>

\* a job id that leaves the benchmark out
BuildJobIdOfConfigOnly(benchmark, config_id) ==
    [benchmark |-> benchmark,
     config_id |-> config_id,
     job_id    |-> config_id]

\* BuildJob::new: job_id = format!("{}-{}", benchmark, config_id)
BuildJobNew(benchmark, config_id) ==
    [benchmark |-> benchmark,
     config_id |-> config_id,
     job_id    |-> benchmark \o "-" \o config_id]

\* BuildMatrix::generate: for benchmark in BENCHMARKS { for config in configs
\* { matrix.add_job(BuildJob::new(*benchmark, &config.id)) } }
BuildMatrixGenerate(configs) ==
    [k \in 1..(Len(BENCHMARKS) * Len(configs)) |->
        BuildJobNew(BENCHMARKS[((k - 1) \div Len(configs)) + 1],
                    configs[((k - 1) % Len(configs)) + 1].id)]

\* BuildMatrix::jobs_for_benchmark
jobs_for_benchmark(jobs, benchmark) ==
    SelectSeq(jobs, LAMBDA job : job.benchmark = benchmark)

\* BuildMatrix::jobs_for_config
jobs_for_config(jobs, config_id) ==
    SelectSeq(jobs, LAMBDA job : job.config_id = config_id)

(***************************************************************************)
(* scheduler.rs: BuildResult, JobStatus                                    *)
(***************************************************************************)
Pending == [kind |-> "Pending"]
Running == [kind |-> "Running"]
Success == [kind |-> "Success"]
Failure(error) == [kind |-> "Failure", error |-> error]

\* JobStatus::new
JobStatusNew(job) == [job |-> job, result |-> Pending, duration_ms |-> None]

\* a mark_running that refuses nothing but resets the job instead
MarkRunningResets(s) == [s EXCEPT !.result = Pending]

\* JobStatus::mark_running
mark_running(s) == [s EXCEPT !.result = Running]

\* JobStatus::mark_success
mark_success(s, duration_ms) ==
    [s EXCEPT !.result = Success, !.duration_ms = Some(duration_ms)]

\* JobStatus::mark_failure
mark_failure(s, error) == [s EXCEPT !.result = Failure(error)]

\* an is_complete that forgets the Failure arm
IsCompleteSuccessOnly(s) == s.result.kind = "Success"

\* JobStatus::is_complete
is_complete(s) == s.result.kind \in {"Success", "Failure"}

\* JobStatus::is_success
is_success(s) == s.result.kind = "Success"

\* JobStatus::is_failure
is_failure(s) == s.result.kind = "Failure"

(***************************************************************************)
(* scheduler.rs: BuildScheduler                                            *)
(***************************************************************************)
\* the jobs a build matrix handed to initialize is drawn from
JobPool == { BuildJobNew(BENCHMARKS[i], "baseline") : i \in 1..MaxJobs }

Durations == 1..MaxDuration
Errors == {"error1"}

\* BuildScheduler::with_parallelism: no statuses yet
EmptyStatuses == [id \in {} |-> None]

\* BuildScheduler::total_jobs
total_jobs == Cardinality(DOMAIN statuses)

\* BuildScheduler::pending_count
pending_count ==
    Cardinality({id \in DOMAIN statuses : statuses[id].result.kind = "Pending"})

\* BuildScheduler::running_count
running_count ==
    Cardinality({id \in DOMAIN statuses : statuses[id].result.kind = "Running"})

\* BuildScheduler::completed_count
completed_count ==
    Cardinality({id \in DOMAIN statuses : is_complete(statuses[id])})

\* BuildScheduler::success_count
success_count ==
    Cardinality({id \in DOMAIN statuses : is_success(statuses[id])})

\* BuildScheduler::failure_count
failure_count ==
    Cardinality({id \in DOMAIN statuses : is_failure(statuses[id])})

RECURSIVE SumDurations(_)
\* durations.iter().sum() over the statuses whose id is in ids
SumDurations(ids) ==
    IF ids = {} THEN 0
    ELSE LET id == CHOOSE x \in ids : TRUE
         IN statuses[id].duration_ms.value + SumDurations(ids \ {id})

\* BuildScheduler::average_duration_ms: None, or Some of the quotient
\* sum / len, kept as the exact fraction [sum, len]
average_duration_ms ==
    LET withDuration == {id \in DOMAIN statuses : statuses[id].duration_ms.some}
    IN IF withDuration = {} THEN None
       ELSE Some([sum |-> SumDurations(withDuration),
                  len |-> Cardinality(withDuration)])

\* BuildScheduler::initialize: clear, then one fresh Pending status per job
Initialize(matrix) ==
    /\ statuses' = [id \in {j.job_id : j \in matrix} |->
                      JobStatusNew(CHOOSE j \in matrix : j.job_id = id)]
    /\ UNCHANGED <<selVars, laterVars>>

\* get_status_mut(job_id) then mark_running
MarkRunning(id) ==
    /\ id \in DOMAIN statuses
    /\ statuses' = [statuses EXCEPT ![id] = mark_running(@)]
    /\ UNCHANGED <<selVars, laterVars>>

\* get_status_mut(job_id) then mark_success(duration_ms)
MarkSuccess(id, d) ==
    /\ id \in DOMAIN statuses
    /\ statuses' = [statuses EXCEPT ![id] = mark_success(@, d)]
    /\ UNCHANGED <<selVars, laterVars>>

\* get_status_mut(job_id) then mark_failure(error)
MarkFailure(id, e) ==
    /\ id \in DOMAIN statuses
    /\ statuses' = [statuses EXCEPT ![id] = mark_failure(@, e)]
    /\ UNCHANGED <<selVars, laterVars>>

PoolIds == {j.job_id : j \in JobPool}

Init ==
    /\ statuses = EmptyStatuses
    /\ gen_configs = ConfigGeneratorNew
    /\ requested = 0
    /\ selector = None
    /\ input = <<>>
    /\ selected = None
    /\ generators = [g \in GeneratorIds |-> ConfigGeneratorNew]
    /\ gen_calls = [g \in GeneratorIds |-> 0]
    /\ matrix_input = <<>>
    /\ build_matrix = None
    /\ report = ""
    /\ parsed = None
    /\ samples = <<>>
    /\ stats_result = None
    /\ stable = None
    /\ job_result = None
    /\ results = <<>>
    /\ exec_config = None
    /\ iteration = 0
    /\ runs_started = 0
    /\ run_output = None
    /\ pc = "idle"
    /\ returned = None
    /\ study_jobs = None
    /\ idx = 0
    /\ completed = 0
    /\ failed = 0
    /\ progress = <<>>
    /\ anova_groups = None
    /\ anova_result = None
    /\ boot_args = None
    /\ boot_result = None

SchedulerNext ==
    \/ \E matrix \in SUBSET JobPool : Initialize(matrix)
    \/ \E id \in PoolIds : MarkRunning(id)
    \/ \E id \in PoolIds, d \in Durations : MarkSuccess(id, d)
    \/ \E id \in PoolIds, e \in Errors : MarkFailure(id, e)

SchedulerSpec == Init /\ [][SchedulerNext]_vars

(***************************************************************************)
(* pathfinder.rs: PathfinderSelector.  A selection is a Vec of references *)
(* into the input slice: here, a sequence of indices into it.              *)
(***************************************************************************)
Strategies == {"BaselineAndExtremes", "SingleFactorCoverage", "Balanced"}

\* a constructor without the max(1) clamp
NewUnclamped(strategy, max_configs) ==
    [strategy |-> strategy, max_configs |-> max_configs]

\* PathfinderSelector::new
PathfinderSelectorNew(strategy, max_configs) ==
    [strategy |-> strategy, max_configs |-> Max(max_configs, 1)]

\* PathfinderSelector::balanced
balanced(max_configs) == PathfinderSelectorNew("Balanced", max_configs)

\* a first tier that looks for baseline alone
IsBaselineOnly(id) == id = "baseline"

\* config.id == "baseline" || config.id == "standard-release"
IsBaselineOrStandard(id) == id = "baseline" \/ id = "standard-release"

\* config.id.starts_with("extreme-") || config.id.contains("max-")
IsExtremeOrMax(id) == StartsWith(id, "extreme-") \/ Contains(id, "max-")

\* the six prefixes of select_single_factor_coverage
IsSingleFactorPrefix(id) ==
    \/ StartsWith(id, "opt-")
    \/ StartsWith(id, "lto-")
    \/ StartsWith(id, "codegen-")
    \/ StartsWith(id, "pgo-")
    \/ StartsWith(id, "cpu-")
    \/ StartsWith(id, "strip-")

\* config.id.contains("size-") || config.id.starts_with("opt-s")
IsSize(id) == Contains(id, "size-") \/ StartsWith(id, "opt-s")

\* config.id.contains("perf-") || config.id.contains("max-")
IsPerf(id) == Contains(id, "perf-") \/ Contains(id, "max-")

\* config.id.starts_with("extreme-")
IsExtreme(id) == StartsWith(id, "extreme-")

\* single_factor_keywords of select_balanced
single_factor_keywords ==
    <<"opt-3", "lto-thin", "lto-fat", "codegen-1", "cpu-native", "pgo-on">>

\* the next element at or after index i at which a loop's condition m
\* holds (0: the loop runs off the end of the slice)
NextMatch(m, i) ==
    LET hits == {j \in i..Len(m) : m[j]}
    IN IF hits = {} THEN 0 ELSE CHOOSE j \in hits : \A h \in hits : j <= h

RECURSIVE PushMatching(_, _, _)
\* for config in configs { if m { selected.push(config) } }, from index i on;
\* m[i] is the loop's condition on configs[i]
PushMatching(m, i, sel) ==
    LET j == NextMatch(m, i)
    IN IF j = 0 THEN sel ELSE PushMatching(m, j + 1, Append(sel, j))

RECURSIVE PushUntilFull(_, _, _, _)
\* for config in configs { if m { push; if selected.len() >= max { break } } }
PushUntilFull(m, i, sel, max) ==
    LET j == NextMatch(m, i)
        pushed == Append(sel, j)
    IN IF j = 0 THEN sel
       ELSE IF Len(pushed) >= max THEN pushed
       ELSE PushUntilFull(m, j + 1, pushed, max)

RECURSIVE PushWhileRoom(_, _, _, _)
\* for config in configs { if selected.len() >= max { break } if m { push } }
PushWhileRoom(m, i, sel, max) ==
    LET j == NextMatch(m, i)
    IN IF Len(sel) >= max THEN sel
       ELSE IF j = 0 THEN sel
       ELSE PushWhileRoom(m, j + 1, Append(sel, j), max)

\* the keyword's inner loop pushing every match (its break left out)
PushEveryMatch(configs, keyword, sel) ==
    PushMatching([i \in 1..Len(configs) |-> Contains(configs[i].id, keyword)], 1, sel)

\* for config in configs { if config.id.contains(keyword) { push; break } }
PushFirstMatch(configs, keyword, sel) ==
    LET hits == {i \in 1..Len(configs) : Contains(configs[i].id, keyword)}
    IN IF hits = {} THEN sel
       ELSE Append(sel, CHOOSE i \in hits : \A j \in hits : i <= j)

RECURSIVE KeywordLoop(_, _, _, _)
\* for keyword in &single_factor_keywords { if selected.len() >= max { break } .. }
KeywordLoop(configs, k, sel, max) ==
    IF k > Len(single_factor_keywords) THEN sel
    ELSE IF Len(sel) >= max THEN sel
    ELSE KeywordLoop(configs, k + 1,
                     PushFirstMatch(configs, single_factor_keywords[k], sel), max)

\* a truncate that keeps one element fewer than the budget allows
TruncateBelow(sel, max) == IF Len(sel) >= max THEN SubSeq(sel, 1, max - 1) ELSE sel

\* a truncate that cuts nothing
TruncateNothing(sel, max) == sel

\* Vec::truncate
Truncate(sel, max) == IF Len(sel) > max THEN SubSeq(sel, 1, max) ELSE sel

\* the condition of a loop over configs, evaluated at every element
Tier1Matches(configs) ==
    [i \in 1..Len(configs) |-> IsBaselineOrStandard(configs[i].id)]

\* PathfinderSelector::select_baseline_and_extremes
select_baseline_and_extremes(max, configs) ==
    LET tier1 == PushMatching(Tier1Matches(configs), 1, <<>>)
        tier2 == PushUntilFull(
                     [i \in 1..Len(configs) |-> IsExtremeOrMax(configs[i].id)],
                     1, tier1, max)
    IN Truncate(tier2, max)

\* PathfinderSelector::select_single_factor_coverage
select_single_factor_coverage(max, configs) ==
    LET tier1 == PushMatching(Tier1Matches(configs), 1, <<>>)
        tier2 == PushUntilFull(
                     [i \in 1..Len(configs) |-> IsSingleFactorPrefix(configs[i].id)],
                     1, tier1, max)
    IN Truncate(tier2, max)

\* PathfinderSelector::select_balanced
select_balanced(max, configs) ==
    LET tier1 == PushMatching(Tier1Matches(configs), 1, <<>>)
        tier2 == KeywordLoop(configs, 1, tier1, max)
        tier3 == PushWhileRoom([i \in 1..Len(configs) |-> IsSize(configs[i].id)],
                               1, tier2, max)
        tier4 == PushWhileRoom([i \in 1..Len(configs) |-> IsPerf(configs[i].id)],
                               1, tier3, max)
        tier5 == PushWhileRoom([i \in 1..Len(configs) |-> IsExtreme(configs[i].id)],
                               1, tier4, max)
    IN Truncate(tier5, max)

\* PathfinderSelector::select
select(sel, configs) ==
    CASE sel.strategy = "BaselineAndExtremes" ->
             select_baseline_and_extremes(sel.max_configs, configs)
      [] sel.strategy = "SingleFactorCoverage" ->
             select_single_factor_coverage(sel.max_configs, configs)
      [] sel.strategy = "Balanced" ->
             select_balanced(sel.max_configs, configs)

\* a hand-made configuration, as the tests' create_test_configs builds them
TestConfig(id) ==
    IF id = "baseline" THEN Baseline ELSE [StandardRelease EXCEPT !.id = id]

\* the ids the hand-made input lists are built from
TestIds ==
    {"baseline", "standard-release", "opt-s", "lto-thin", "perf-native-lto-fat",
     "extreme-speed", "fast-compile"}

\* every list of at most MaxLen hand-made configurations (ids may repeat)
TestLists ==
    UNION {[1..n -> {TestConfig(id) : id \in TestIds}] : n \in 0..MaxLen}

\* impl Default for PathfinderSelector: balanced(15)
DefaultMaxConfigs == 15

\* the budgets a selector is constructed with
Budgets == (0..MaxK) \cup {DefaultMaxConfigs, LargeK}

\* let selector = PathfinderSelector::new(strategy, k)
NewSelector(strategy, k) ==
    /\ selector = None
    /\ requested' = k
    /\ selector' = Some(PathfinderSelectorNew(strategy, k))
    /\ UNCHANGED <<statuses, gen_configs, input, selected, laterVars>>

\* selector.select(&configs) on a hand-made list.  select takes &self and
\* reads only its arguments, so one call per behaviour covers every call.
SelectList(configs) ==
    /\ selector.some
    /\ ~selected.some
    /\ input' = configs
    /\ selected' = Some(select(selector.value, configs))
    /\ UNCHANGED <<statuses, gen_configs, requested, selector, laterVars>>

\* let configs = generator.generate_matrix(); selector.select(configs)
SelectGenerated ==
    /\ selector.some
    /\ ~selected.some
    /\ gen_configs' = generate_matrix(gen_configs)
    /\ input' = gen_configs'
    /\ selected' = Some(select(selector.value, gen_configs'))
    /\ UNCHANGED <<statuses, requested, selector, laterVars>>

SelectorNext ==
    \/ \E strategy \in Strategies, k \in Budgets : NewSelector(strategy, k)
    \/ \E configs \in TestLists : SelectList(configs)
    \/ SelectGenerated

SelectorSpec == Init /\ [][SelectorNext]_vars

(***************************************************************************)
(* ConfigGenerator and BuildMatrix in use: two generators, each asked for  *)
(* its matrix up to MaxCalls times, and one build matrix generated from a  *)
(* hand-made list or from what a generator holds.                          *)
(***************************************************************************)
\* the ids the hand-made lists given to BuildMatrix::generate are built from
MatrixIds == {"baseline", "standard-release", "opt-s"}

\* every list of at most MaxConfigs hand-made configurations (ids may repeat)
MatrixLists ==
    UNION {[1..n -> {TestConfig(id) : id \in MatrixIds}] : n \in 0..MaxConfigs}

\* generator.generate_matrix() on the generator named g
GenerateMatrix(g) ==
    /\ gen_calls[g] < MaxCalls
    /\ generators' = [generators EXCEPT ![g] = generate_matrix(@)]
    /\ gen_calls' = [gen_calls EXCEPT ![g] = @ + 1]
    /\ UNCHANGED <<outsideGen, matrix_input, build_matrix>>

\* let matrix = BuildMatrix::generate(&configs).  generate is an associated
\* function reading only its argument, so one call per behaviour covers
\* every call.
GenerateBuildMatrix(configs) ==
    /\ ~build_matrix.some
    /\ matrix_input' = configs
    /\ build_matrix' = Some(BuildMatrixGenerate(configs))
    /\ UNCHANGED <<outsideGen, generators, gen_calls>>

GeneratorNext ==
    \/ \E g \in GeneratorIds : GenerateMatrix(g)
    \/ \E configs \in MatrixLists : GenerateBuildMatrix(configs)
    \/ \E g \in GeneratorIds : GenerateBuildMatrix(generators[g])

GeneratorSpec == Init /\ [][GeneratorNext]_vars

(***************************************************************************)
(* measurement.rs: Measurement.  Result<T, E> is Ok(v) or Err(e); u64      *)
(* values are integers (the numerals of the model stay far below 2^64).    *)
(***************************************************************************)
Ok(v) == [ok |-> TRUE, value |-> v]
Err(e) == [ok |-> FALSE, error |-> e]

\* Option::ok of a Result: Some of the value, None for an error
ResultOk(r) == IF r.ok THEN Some(r.value) ELSE None

\* the smallest element of a non-empty set of integers
Least(S) == CHOOSE i \in S : \A j \in S : i <= j

RECURSIVE SplitAt(_, _)
\* str::split(sep) for a one-character separator: the pieces between
\* separators, the piece behind the last one included
SplitAt(s, sep) ==
    LET at == {i \in 1..Len(s) : SubSeq(s, i, i) = sep}
    IN IF at = {} THEN <<s>>
       ELSE <<SubSeq(s, 1, Least(at) - 1)>>
            \o SplitAt(SubSeq(s, Least(at) + 1, Len(s)), sep)

\* str::lines: split at "\n", drop the empty piece behind a final "\n", and
\* take the "\r" off a line that ended in "\r\n"
lines(s) ==
    LET pieces == SplitAt(s, "\n")
        n == Len(pieces)
        kept == IF pieces[n] = "" THEN n - 1 ELSE n
    IN [k \in 1..kept |->
          LET l == pieces[k]
          IN IF k < n /\ Len(l) > 0 /\ SubSeq(l, Len(l), Len(l)) = "\r"
             THEN SubSeq(l, 1, Len(l) - 1) ELSE l]

\* line.split(':').nth(1): the second piece, if there is a colon at all
SplitNth1(s) ==
    LET pieces == SplitAt(s, ":")
    IN IF Len(pieces) >= 2 THEN Some(pieces[2]) ELSE None

IsWhitespace(c) == c \in {" ", "\t", "\n", "\r", "\f"}

RECURSIVE trim(_)
\* str::trim
trim(s) ==
    IF Len(s) = 0 THEN s
    ELSE IF IsWhitespace(SubSeq(s, 1, 1)) THEN trim(SubSeq(s, 2, Len(s)))
    ELSE IF IsWhitespace(SubSeq(s, Len(s), Len(s))) THEN trim(SubSeq(s, 1, Len(s) - 1))
    ELSE s

\* the value of a decimal digit, -1 for any other character
DigitValue(c) ==
    LET at == {i \in 1..10 : SubSeq("0123456789", i, i) = c}
    IN IF at = {} THEN -1 ELSE Least(at) - 1

RECURSIVE DigitsValue(_)
\* the number a non-empty string of digits denotes
DigitsValue(s) ==
    IF Len(s) = 1 THEN DigitValue(s)
    ELSE 10 * DigitsValue(SubSeq(s, 1, Len(s) - 1))
         + DigitValue(SubSeq(s, Len(s), Len(s)))

\* str::parse::<u64>().ok(): an optional "+", then one or more digits
ParseU64(s) ==
    LET digits == IF Len(s) > 0 /\ SubSeq(s, 1, 1) = "+"
                  THEN SubSeq(s, 2, Len(s)) ELSE s
    IN IF Len(digits) = 0 THEN None
       ELSE IF \E i \in 1..Len(digits) : DigitValue(SubSeq(digits, i, i)) < 0
       THEN None
       ELSE Some(DigitsValue(digits))

\* Measurement::new
MeasurementNew(startup_us, compute_us, result) ==
    [startup_us |-> startup_us, compute_us |-> compute_us,
     total_us |-> startup_us + compute_us, result |-> result]

\* .and_then(|s| s.trim().parse().ok())
AndThenParse(piece) == IF piece.some THEN ParseU64(trim(piece.value)) ELSE None

\* .map(|s| s.trim().to_string())
MapTrim(piece) == IF piece.some THEN Some(trim(piece.value)) ELSE None

\* the body of from_output's loop for one line; acc holds startup_us,
\* compute_us and result
ScanLine(acc, line) ==
    IF StartsWith(line, "STARTUP_TIME_US:")
    THEN [acc EXCEPT !.startup_us = AndThenParse(SplitNth1(line))]
    ELSE IF StartsWith(line, "COMPUTE_TIME_US:")
    THEN [acc EXCEPT !.compute_us = AndThenParse(SplitNth1(line))]
    ELSE IF StartsWith(line, "RESULT:")
    THEN [acc EXCEPT !.result = MapTrim(SplitNth1(line))]
    ELSE acc

RECURSIVE ScanLines(_, _, _)
\* for line in output.lines() { .. } from the k-th line on
ScanLines(ls, k, acc) ==
    IF k > Len(ls) THEN acc ELSE ScanLines(ls, k + 1, ScanLine(acc, ls[k]))

\* Measurement::from_output
from_output(output) ==
    LET acc == ScanLines(lines(output), 1,
                         [startup_us |-> None, compute_us |-> None, result |-> None])
    IN IF acc.startup_us.some /\ acc.compute_us.some /\ acc.result.some
       THEN Ok(MeasurementNew(acc.startup_us.value, acc.compute_us.value,
                              acc.result.value))
       ELSE Err("Failed to parse measurement output")

\* the lines a run's report is made of
ReportLines ==
    {"STARTUP_TIME_US: 100", "STARTUP_TIME_US: 1:5",
     "COMPUTE_TIME_US: 500", "COMPUTE_TIME_US: fast",
     "RESULT: 42", "Some debug output"}

RECURSIVE JoinLines(_, _)
\* the text whose lines are ls, each but the last followed by "\n" and the
\* last one too if terminated
JoinLines(ls, terminated) ==
    IF Len(ls) = 0 THEN ""
    ELSE IF Len(ls) = 1 THEN ls[1] \o (IF terminated THEN "\n" ELSE "")
    ELSE ls[1] \o "\n" \o JoinLines(Tail(ls), terminated)

\* every report of at most MaxLines lines
Reports ==
    {JoinLines(ls, t) :
        ls \in UNION {[1..n -> ReportLines] : n \in 0..MaxLines}, t \in BOOLEAN}

\* Measurement::from_output(&stdout).  from_output is an associated function
\* reading only its argument, so one call per behaviour covers every call.
FromOutput(output) ==
    /\ ~parsed.some
    /\ report' = output
    /\ parsed' = Some(from_output(output))
    /\ UNCHANGED outsideParse

ParseNext == \E output \in Reports : FromOutput(output)

ParseSpec == Init /\ [][ParseNext]_vars

(***************************************************************************)
(* measurement.rs: MeasurementStats, and mean and median of the stats      *)
(* crate.  An f64 is kept as the exact value it stands for: a quotient as  *)
(* the fraction [num, den] in lowest terms with den > 0, a square root as   *)
(* its radicand.  Rounding is not modelled.                                *)
(***************************************************************************)
RECURSIVE Gcd(_, _)
\* the greatest common divisor of a >= 0 and b >= 0
Gcd(a, b) == IF b = 0 THEN a ELSE Gcd(b, a % b)

\* the value num / den (den > 0)
Frac(num, den) ==
    LET g == Gcd(IF num < 0 THEN -num ELSE num, den)
    IN [num |-> num \div g, den |-> den \div g]

\* a <= b and a < b on fractions
FracLe(a, b) == a.num * b.den <= b.num * a.den
FracLt(a, b) == a.num * b.den < b.num * a.den

RECURSIVE Sum(_)
\* iter().sum() of a sequence of integers
Sum(xs) == IF Len(xs) = 0 THEN 0 ELSE xs[1] + Sum(Tail(xs))

RECURSIVE SumFrac(_)
\* iter().sum::<f64>() of a non-empty sequence of fractions
SumFrac(xs) ==
    IF Len(xs) = 1 THEN xs[1]
    ELSE LET rest == SumFrac(Tail(xs))
         IN Frac(xs[1].num * rest.den + rest.num * xs[1].den, xs[1].den * rest.den)

RECURSIVE SortAscending(_)
\* sorted.sort_by(|a, b| a.partial_cmp(b).unwrap())
SortAscending(xs) ==
    IF Len(xs) = 0 THEN <<>>
    ELSE LET at == {i \in 1..Len(xs) : \A j \in 1..Len(xs) : xs[i] <= xs[j]}
             i == Least(at)
         IN <<xs[i]>> \o SortAscending(SubSeq(xs, 1, i - 1) \o SubSeq(xs, i + 1, Len(xs)))

\* stats::mean
mean(data) ==
    IF Len(data) = 0 THEN Frac(0, 1) ELSE Frac(Sum(data), Len(data))

\* stats::median
median(data) ==
    IF Len(data) = 0 THEN Frac(0, 1)
    ELSE LET sorted == SortAscending(data)
             mid == Len(sorted) \div 2
         IN IF Len(sorted) % 2 = 0
            THEN Frac(sorted[mid] + sorted[mid + 1], 2)
            ELSE Frac(sorted[mid + 1], 1)

\* iter().min().unwrap() and iter().max().unwrap()
IterMin(xs) == CHOOSE x \in {xs[i] : i \in 1..Len(xs)} : \A i \in 1..Len(xs) : x <= xs[i]
IterMax(xs) == CHOOSE x \in {xs[i] : i \in 1..Len(xs)} : \A i \in 1..Len(xs) : x >= xs[i]

\* the result token of the last measurement instead of the first
LastResult(measurements) == measurements[Len(measurements)].result

\* measurements[0].result.clone()
FirstResult(measurements) == measurements[1].result

\* MeasurementStats::from_measurements
from_measurements(measurements) ==
    IF Len(measurements) = 0
    THEN Err("Cannot compute stats from empty measurements")
    ELSE LET compute_times == [i \in 1..Len(measurements) |-> measurements[i].compute_us]
             total_times == [i \in 1..Len(measurements) |-> measurements[i].total_us]
             mean_compute == mean(compute_times)
             \* (t - mean_compute).powi(2)
             squares == [i \in 1..Len(compute_times) |->
                            LET diff == Frac(compute_times[i] * mean_compute.den
                                                 - mean_compute.num,
                                             mean_compute.den)
                            IN Frac(diff.num * diff.num, diff.den * diff.den)]
             sum == SumFrac(squares)
             variance == Frac(sum.num, sum.den * Len(compute_times))
         IN Ok([count |-> Len(measurements),
                mean_compute_us |-> mean_compute,
                median_compute_us |-> median(compute_times),
                min_compute_us |-> IterMin(compute_times),
                max_compute_us |-> IterMax(compute_times),
                stddev_compute_us |-> [sqrt_of |-> variance],
                mean_total_us |-> mean(total_times),
                result |-> FirstResult(measurements)])

\* MeasurementStats::coefficient_of_variation: stddev / mean, or 0.0
coefficient_of_variation(stats) ==
    LET m == stats.mean_compute_us
        v == stats.stddev_compute_us.sqrt_of
    IN IF FracLt(Frac(0, 1), m)
       THEN [sqrt_of |-> Frac(v.num * m.den * m.den, v.den * m.num * m.num)]
       ELSE [sqrt_of |-> Frac(0, 1)]

\* an is_stable that lets the boundary pass: sqrt(a) <= t
IsStableInclusive(stats, cv_threshold) ==
    /\ cv_threshold.num >= 0
    /\ FracLe(coefficient_of_variation(stats).sqrt_of,
              Frac(cv_threshold.num * cv_threshold.num,
                   cv_threshold.den * cv_threshold.den))

\* MeasurementStats::is_stable: sqrt(a) < t, that is t > 0 and a < t * t
is_stable(stats, cv_threshold) ==
    /\ cv_threshold.num > 0
    /\ FracLt(coefficient_of_variation(stats).sqrt_of,
              Frac(cv_threshold.num * cv_threshold.num,
                   cv_threshold.den * cv_threshold.den))

\* the measurements a run can yield
Measurements ==
    {MeasurementNew(10, 9, "42"), MeasurementNew(10, 11, "42"),
     MeasurementNew(20, 10, "43"), MeasurementNew(0, 0, "42")}

\* impl Default for ExecutionConfig: max_cv 0.10
DefaultMaxCv == Frac(1, 10)

\* the thresholds is_stable is asked with
Thresholds == {DefaultMaxCv, Frac(1, 20), Frac(0, 1)}

\* MeasurementStats::from_measurements(&measurements).  It is an associated
\* function reading only its argument: one call per behaviour.
FromMeasurements(measurements) ==
    /\ ~stats_result.some
    /\ samples' = measurements
    /\ stats_result' = Some(from_measurements(measurements))
    /\ UNCHANGED <<outsideStats, stable>>

\* stats.is_stable(cv_threshold) on the stats just computed
IsStable(cv_threshold) ==
    /\ stats_result.some
    /\ stats_result.value.ok
    /\ stable' = Some([cv_threshold |-> cv_threshold,
                       answer |-> is_stable(stats_result.value.value, cv_threshold)])
    /\ UNCHANGED <<outsideStats, samples, stats_result>>

StatsNext ==
    \/ \E measurements \in UNION {[1..n -> Measurements] : n \in 0..MaxSamples} :
           FromMeasurements(measurements)
    \/ \E cv_threshold \in Thresholds : IsStable(cv_threshold)

StatsSpec == Init /\ [][StatsNext]_vars

(***************************************************************************)
(* measurement.rs: JobResult and ResultsCollection                         *)
(***************************************************************************)
\* JobResult::new
JobResultNew(job) == [job |-> job, measurements |-> <<>>, stats |-> None]

\* JobResult::update_stats
update_stats(r) ==
    IF Len(r.measurements) # 0
    THEN [r EXCEPT !.stats = ResultOk(from_measurements(r.measurements))]
    ELSE r

\* an add_measurement that pushes and leaves the stats as they were
AddMeasurementOnly(r, measurement) ==
    [r EXCEPT !.measurements = Append(@, measurement)]

\* JobResult::add_measurement
add_measurement(r, measurement) ==
    update_stats([r EXCEPT !.measurements = Append(@, measurement)])

\* JobResult::measurement_count
measurement_count(r) == Len(r.measurements)

\* ResultsCollection::add_result
add_result(rs, result) == Append(rs, result)

\* ResultsCollection::get_result: iter().find(|r| r.job.job_id == job_id)
get_result(rs, job_id) ==
    LET at == {i \in 1..Len(rs) : rs[i].job.job_id = job_id}
    IN IF at = {} THEN None ELSE Some(rs[Least(at)])

\* ResultsCollection::total_measurements
total_measurements(rs) == Sum([i \in 1..Len(rs) |-> measurement_count(rs[i])])

\* the jobs results are collected for
ResultJobs ==
    {BuildJobNew("fibonacci", "baseline"), BuildJobNew("ackermann", "baseline")}

\* let mut result = JobResult::new(job)
NewJobResult(job) ==
    /\ ~job_result.some
    /\ job_result' = Some(JobResultNew(job))
    /\ UNCHANGED <<outsideResults, results>>

\* result.add_measurement(measurement); a study takes at most
\* MaxMeasurements measurements
AddMeasurement(measurement) ==
    /\ job_result.some
    /\ total_measurements(results) + measurement_count(job_result.value)
           < MaxMeasurements
    /\ job_result' = Some(add_measurement(job_result.value, measurement))
    /\ UNCHANGED <<outsideResults, results>>

\* collection.add_result(result): the result is moved into the collection
AddResult ==
    /\ job_result.some
    /\ Len(results) < MaxResults
    /\ results' = add_result(results, job_result.value)
    /\ job_result' = None
    /\ UNCHANGED outsideResults

ResultsNext ==
    \/ \E job \in ResultJobs : NewJobResult(job)
    \/ \E measurement \in Measurements : AddMeasurement(measurement)
    \/ AddResult

ResultsSpec == Init /\ [][ResultsNext]_vars

(***************************************************************************)
(* bin/full_pathfinder_execution.rs: execute_job.  The build and every run *)
(* are external processes: a launch is one step, its completion another.   *)
(* pc is "idle" before the call, "loop" at the head of the for loop,       *)
(* "running" while a run is in flight and "done" once the call returned.   *)
(***************************************************************************)
\* ExecutionConfig, as far as execute_job reads it
ExecutionConfigs ==
    [max_cv : {DefaultMaxCv, Frac(0, 1)},
     min_iterations : 0..MaxIterations,
     max_iterations : 0..MaxIterations]

\* how the build process ends: Command::output fails, or the process exits
\* with or without success
BuildOutcomes == {"io_error", "failed", "success"}

\* how a run ends: Command::output fails, the process exits without success,
\* or it exits with success and this stdout
RunOutcomes ==
    {[kind |-> "io_error"], [kind |-> "failed"]}
    \cup {[kind |-> "success", stdout |-> text] :
            text \in {"STARTUP_TIME_US: 10\nCOMPUTE_TIME_US: 9\nRESULT: 42\n",
                      "STARTUP_TIME_US: 10\nCOMPUTE_TIME_US: 11\nRESULT: 42\n",
                      "COMPUTE_TIME_US: 11\nRESULT: 42\n"}}

\* an early stop that does not wait for min_iterations
StopsEarlyIgnoringMin(config, i, r) ==
    r.stats.some /\ is_stable(r.stats.value, config.max_cv)

\* if iteration >= config.min_iterations { if let Some(stats) =
\* &job_result.stats { if stats.is_stable(config.max_cv) { break } } }
StopsEarly(config, i, r) ==
    /\ i >= config.min_iterations
    /\ r.stats.some
    /\ is_stable(r.stats.value, config.max_cv)

\* execute_job(job, config) up to the loop: the JobResult and the build
ExecuteJob(job, config, build) ==
    /\ pc = "idle"
    /\ exec_config' = Some(config)
    /\ job_result' = Some(JobResultNew(job))
    /\ runs_started' = 0
    /\ run_output' = None
    /\ CASE build = "io_error" ->
               /\ pc' = "done"
               /\ iteration' = 0
               /\ returned' = Some(Err("io error"))
         [] build = "failed" ->
               /\ pc' = "done"
               /\ iteration' = 0
               /\ returned' = Some(Err("Build failed for " \o job.job_id))
         [] build = "success" /\ config.max_iterations >= 1 ->
               /\ pc' = "loop"
               /\ iteration' = 1
               /\ returned' = None
         [] build = "success" /\ config.max_iterations < 1 ->
               /\ pc' = "done"
               /\ iteration' = 0
               /\ returned' = Some(Ok(job_result'.value))
    /\ UNCHANGED outsideExec

\* Command::new("cargo").args(["run", ..]).output(): the run is launched
StartRun ==
    /\ pc = "loop"
    /\ pc' = "running"
    /\ runs_started' = runs_started + 1
    /\ UNCHANGED <<outsideExec, job_result, exec_config, iteration, run_output,
                   returned>>

\* a loop body that records an empty measurement for an unparsable report
RecordRunOrEmpty(r, outcome) ==
    IF outcome.kind # "success"
    THEN r
    ELSE IF from_output(outcome.stdout).ok
    THEN add_measurement(r, from_output(outcome.stdout).value)
    ELSE add_measurement(r, MeasurementNew(0, 0, ""))

\* the JobResult after the loop body took the output of a run: if
\* !output.status.success() { continue }; if let Ok(measurement) =
\* Measurement::from_output(&stdout) { job_result.add_measurement(..) }
RecordRun(r, outcome) ==
    IF outcome.kind = "success" /\ from_output(outcome.stdout).ok
    THEN add_measurement(r, from_output(outcome.stdout).value)
    ELSE r

\* the run in flight ends with outcome, and the rest of the loop body runs
FinishRun(outcome) ==
    /\ pc = "running"
    /\ run_output' = Some(outcome)
    /\ LET config == exec_config.value
           measured == outcome.kind = "success" /\ from_output(outcome.stdout).ok
           r == RecordRun(job_result.value, outcome)
       IN /\ job_result' = Some(r)
          /\ IF outcome.kind = "io_error"
             THEN /\ pc' = "done"
                  /\ returned' = Some(Err("io error"))
                  /\ iteration' = iteration
             ELSE IF measured /\ StopsEarly(config, iteration, r)
             THEN /\ pc' = "done"
                  /\ returned' = Some(Ok(r))
                  /\ iteration' = iteration
             ELSE IF iteration < config.max_iterations
             THEN /\ pc' = "loop"
                  /\ returned' = None
                  /\ iteration' = iteration + 1
             ELSE /\ pc' = "done"
                  /\ returned' = Some(Ok(r))
                  /\ iteration' = iteration
    /\ UNCHANGED <<outsideExec, exec_config, runs_started>>

ExecuteNext ==
    \/ \E job \in ResultJobs, config \in ExecutionConfigs, build \in BuildOutcomes :
           ExecuteJob(job, config, build)
    \/ StartRun
    \/ \E outcome \in RunOutcomes : FinishRun(outcome)

\* execute_job runs on: the build and each run return, the loop goes on
ExecuteSpec == Init /\ [][ExecuteNext]_vars /\ WF_vars(ExecuteNext)

(***************************************************************************)
(* bin/full_pathfinder_execution.rs: main, step 3.  The loop over          *)
(* matrix.jobs() prints a progress line, calls execute_job and counts the  *)
(* outcome.  pc is "idle" between two calls and "aborted" once main has    *)
(* returned the error of a failed flush of the progress line.              *)
(***************************************************************************)
\* the matrices of a study: the first jobs of a benchmarks x configs matrix
StudyMatrices ==
    {SubSeq(BuildMatrixGenerate(<<Baseline, StandardRelease>>), 1, n) :
        n \in 0..MaxStudyJobs}

\* ExecutionConfig::default(): max_cv 0.10, min_iterations below
\* max_iterations; the iteration counts are cut down to the bound
StudyConfigs ==
    {c \in ExecutionConfigs :
        /\ c.max_cv = DefaultMaxCv
        /\ c.max_iterations = MaxIterations
        /\ c.min_iterations = MaxIterations - 1}

\* how std::io::stdout().flush() ends
FlushOutcomes == {"ok", "io_error"}

\* let exec_config = ExecutionConfig::default(); .. let mut results =
\* ResultsCollection::new(); let mut completed = 0; let mut failed = 0
StudyBegin(jobs, config) ==
    /\ ~study_jobs.some
    /\ pc = "idle"
    /\ ~exec_config.some
    /\ study_jobs' = Some(jobs)
    /\ exec_config' = Some(config)
    /\ results' = <<>>
    /\ idx' = 0
    /\ completed' = 0
    /\ failed' = 0
    /\ progress' = <<>>
    /\ UNCHANGED <<analysisVars, schedVars, selVars, genVars, parseVars, statsVars, job_result,
                   iteration, runs_started, run_output, pc, returned>>

\* the loop takes matrix.jobs()[idx]: print!(job_num, total_jobs, benchmark,
\* config_id); std::io::stdout().flush()?
PrintProgress(flush) ==
    /\ study_jobs.some
    /\ pc = "idle"
    /\ idx < Len(study_jobs.value)
    /\ Len(progress) = idx
    /\ progress' = Append(progress,
                       [job_num |-> idx + 1,
                        total_jobs |-> Len(study_jobs.value),
                        benchmark |-> study_jobs.value[idx + 1].benchmark,
                        config_id |-> study_jobs.value[idx + 1].config_id])
    /\ pc' = IF flush = "ok" THEN "idle" ELSE "aborted"
    /\ UNCHANGED <<analysisVars, schedVars, selVars, genVars, parseVars, statsVars, resultVars,
                   exec_config, iteration, runs_started, run_output, returned,
                   study_jobs, idx, completed, failed>>

\* execute_job(job, &exec_config) for the job whose line was printed
StudyExecute(build) ==
    /\ study_jobs.some
    /\ Len(progress) = idx + 1
    /\ ExecuteJob(study_jobs.value[idx + 1], exec_config.value, build)

\* a match that counts a job without measurements as completed
MatchCountingEmpty(r) ==
    IF r.ok THEN "completed" ELSE "failed"

\* match execute_job(..): Ok(job_result) with measurements > 0 is a
\* completed job, Ok without measurements and Err(e) are failed jobs
Match(r) ==
    IF r.ok /\ measurement_count(r.value) > 0 THEN "completed" ELSE "failed"

\* the rest of the loop body once execute_job has returned; the locals of
\* the call are gone
StudyMatch ==
    /\ study_jobs.some
    /\ pc = "done"
    /\ IF Match(returned.value) = "completed"
       THEN /\ results' = add_result(results, returned.value.value)
            /\ completed' = completed + 1
            /\ failed' = failed
       ELSE /\ results' = results
            /\ completed' = completed
            /\ failed' = failed + 1
    /\ idx' = idx + 1
    /\ pc' = "idle"
    /\ job_result' = None
    /\ iteration' = 0
    /\ runs_started' = 0
    /\ run_output' = None
    /\ returned' = None
    /\ UNCHANGED <<analysisVars, schedVars, selVars, genVars, parseVars, statsVars,
                   exec_config, study_jobs, progress>>

StudyNext ==
    \/ \E jobs \in StudyMatrices, config \in StudyConfigs : StudyBegin(jobs, config)
    \/ \E flush \in FlushOutcomes : PrintProgress(flush)
    \/ \E build \in BuildOutcomes : StudyExecute(build)
    \/ StartRun
    \/ \E outcome \in RunOutcomes : FinishRun(outcome)
    \/ StudyMatch

\* main runs on: every external process returns, every match is taken
StudySpec == Init /\ [][StudyNext]_vars /\ WF_vars(StudyNext)

(***************************************************************************)
(* analysis/src/basic.rs and frequentist.rs.  An f64 is a binary floating  *)
(* point number: here a fraction m * 2^e whose significand m has           *)
(* MantissaBits bits (f64 has 53), every operation returning the exact     *)
(* result rounded to the nearest such number, ties to the even             *)
(* significand.  Exponent overflow and underflow, NaN and infinities are   *)
(* left out.                                                               *)
(***************************************************************************)
RECURSIVE RoundPos(_, _, _, _)
\* the float nearest to (n / d) * (up / down), for n > 0 and d > 0: the
\* quotient is scaled into [2^(MantissaBits-1), 2^MantissaBits) and rounded
\* to an integer there
RoundPos(n, d, up, down) ==
    IF n >= d * 2^MantissaBits THEN RoundPos(n, 2 * d, 2 * up, down)
    ELSE IF n < d * 2^(MantissaBits - 1) THEN RoundPos(2 * n, d, up, 2 * down)
    ELSE LET m == n \div d
             r == n % d
             rounded == IF 2 * r > d \/ (2 * r = d /\ m % 2 = 1) THEN m + 1 ELSE m
         IN Frac(rounded * up, down)

\* the f64 nearest to the fraction x
Round(x) ==
    IF x.num = 0 THEN Frac(0, 1)
    ELSE IF x.num > 0 THEN RoundPos(x.num, x.den, 1, 1)
    ELSE LET r == RoundPos(-x.num, x.den, 1, 1) IN Frac(-r.num, r.den)

\* a + b, a - b, a * b and a / b (b # 0) on f64
FOp(op, a, b) ==
    CASE op = "+" -> Round(Frac(a.num * b.den + b.num * a.den, a.den * b.den))
      [] op = "-" -> Round(Frac(a.num * b.den - b.num * a.den, a.den * b.den))
      [] op = "*" -> Round(Frac(a.num * b.num, a.den * b.den))
      [] op = "/" -> IF b.num > 0
                     THEN Round(Frac(a.num * b.den, a.den * b.num))
                     ELSE Round(Frac(-(a.num * b.den), a.den * (-b.num)))

\* n as f64, for a count n that a significand holds
AsF64(n) == Frac(n, 1)

RECURSIVE FSum(_)
\* data.iter().sum::<f64>(): the elements are added from the left to 0.0
FSum(data) ==
    IF Len(data) = 0 THEN Frac(0, 1)
    ELSE FOp("+", FSum(SubSeq(data, 1, Len(data) - 1)), data[Len(data)])

\* a mean that does not divide by the length
BasicMeanUndivided(data) ==
    IF Len(data) = 0 THEN None ELSE Some(FSum(data))

\* basic::mean
BasicMean(data) ==
    IF Len(data) = 0 THEN None
    ELSE Some(FOp("/", FSum(data), AsF64(Len(data))))

RECURSIVE SortFrac(_)
\* sorted.sort_by(|a, b| a.partial_cmp(b).unwrap())
SortFrac(xs) ==
    IF Len(xs) = 0 THEN <<>>
    ELSE LET at == {i \in 1..Len(xs) : \A j \in 1..Len(xs) : FracLe(xs[i], xs[j])}
             i == Least(at)
         IN <<xs[i]>> \o SortFrac(SubSeq(xs, 1, i - 1) \o SubSeq(xs, i + 1, Len(xs)))

\* basic::median
BasicMedian(data) ==
    IF Len(data) = 0 THEN None
    ELSE LET sorted == SortFrac(data)
             mid == Len(sorted) \div 2
         IN IF Len(sorted) % 2 = 0
            THEN Some(FOp("/", FOp("+", sorted[mid], sorted[mid + 1]), AsF64(2)))
            ELSE Some(sorted[mid + 1])

RECURSIVE Flatten(_)
\* all_data after extend_from_slice(group) for every group
Flatten(groups) ==
    IF Len(groups) = 0 THEN <<>> ELSE groups[1] \o Flatten(Tail(groups))

\* frequentist::anova_one_way
anova_one_way(groups) ==
    IF Len(groups) < 2 THEN None
    ELSE IF \E g \in 1..Len(groups) : Len(groups[g]) = 0 THEN None
    ELSE
      LET all_data == Flatten(groups)
          grand_mean == BasicMean(all_data).value
          n_total == Len(all_data)
          k == Len(groups)
          Powi2(x) == FOp("*", x, x)
          group_mean(g) == BasicMean(groups[g]).value
          SsBetween[g \in 0..k] ==
              IF g = 0 THEN Frac(0, 1)
              ELSE FOp("+", SsBetween[g - 1],
                       FOp("*", AsF64(Len(groups[g])),
                           Powi2(FOp("-", group_mean(g), grand_mean))))
          GroupSquares(g) ==
              [i \in 1..Len(groups[g]) |-> Powi2(FOp("-", groups[g][i], group_mean(g)))]
          \* ss_within += .. over the values of every group, in order
          SsWithin[j \in 0..n_total] ==
              IF j = 0 THEN Frac(0, 1)
              ELSE FOp("+", SsWithin[j - 1],
                       Flatten([g \in 1..k |-> GroupSquares(g)])[j])
          ss_between == SsBetween[k]
          ss_within == SsWithin[n_total]
          df_between == k - 1
          df_within == n_total - k
      IN IF df_within = 0 THEN None
         ELSE
           LET ms_between == FOp("/", ss_between, AsF64(df_between))
               ms_within == FOp("/", ss_within, AsF64(df_within))
           IN IF ~(ms_within.num > 0) THEN None
              ELSE
                LET f_statistic == FOp("/", ms_between, ms_within)
                    ss_total == FOp("+", ss_between, ss_within)
                    eta_squared ==
                        IF ss_total.num > 0
                        THEN FOp("/", ss_between, ss_total)
                        ELSE Frac(0, 1)
                IN Some([f_statistic |-> f_statistic,
                         df_between |-> df_between,
                         df_within |-> df_within,
                         significant |-> FracLt(Frac(3, 1), f_statistic),
                         eta_squared |-> eta_squared])

\* the statistic handed to bootstrap_ci, applied to a sample
Statistic(name, sample) ==
    CASE name = "mean" -> BasicMean(sample)
      [] name = "median" -> BasicMedian(sample)

\* a resample whose index rule multiplies j by 2
ResampleStepTwo(data, i) ==
    [j \in 1..Len(data) |-> data[((i * 31 + (j - 1) * 2) % Len(data)) + 1]]

\* the sample of round i: for j in 0..data.len() { let idx =
\* (i * 31 + j * 17) % data.len(); sample.push(data[idx]) }
Resample(data, i) ==
    [j \in 1..Len(data) |-> data[((i * 31 + (j - 1) * 17) % Len(data)) + 1]]

\* frequentist::bootstrap_ci; confidence is a fraction, the two indices are
\* the products truncated by `as usize`
bootstrap_ci(data, statistic, n_bootstrap, confidence) ==
    IF Len(data) = 0 THEN None
    ELSE
      LET stat(i) == Statistic(statistic, Resample(data, i))
          kept == {i \in 0..(n_bootstrap - 1) : stat(i).some}
          \* the round whose statistic is the r-th one pushed
          round(r) == CHOOSE i \in kept : Cardinality({j \in kept : j < i}) = r - 1
          pushed == [r \in 1..Cardinality(kept) |-> stat(round(r)).value]
          bootstrap_stats == SortFrac(pushed)
          n == Len(bootstrap_stats)
          \* alpha / 2 and 1 - alpha / 2 for alpha = 1 - confidence
          lower_idx == (n * (confidence.den - confidence.num)) \div (2 * confidence.den)
          upper_idx == (n * (confidence.den + confidence.num)) \div (2 * confidence.den)
      IN IF n = 0 THEN None
         ELSE Some(<<bootstrap_stats[Min(lower_idx, n - 1) + 1],
                     bootstrap_stats[Min(upper_idx, n - 1) + 1]>>)

\* a slice of observations that are whole numbers
Observations(values) == [i \in 1..Len(values) |-> AsF64(values[i])]

\* the groups of observations the calls are made with: those of the tests of
\* frequentist.rs, a single observation, constant groups and spread groups
GroupPool ==
    {Observations(g) :
        g \in {<<>>, <<1, 2, 3>>, <<10, 11, 12>>, <<5>>, <<7, 7, 7>>,
               <<1, 1>>, <<3, 3>>, <<1, 3>>}}

\* the slices of at most MaxGroups groups
GroupLists == UNION {[1..k -> GroupPool] : k \in 0..MaxGroups}

\* the data sets bootstrap_ci is called with: 1, 2, .., n, a data set with a
\* large last observation, and constant data
DataPool ==
    {Observations([i \in 1..n |-> ((i - 1) % LargestObservation) + 1]) : n \in 0..MaxData}
    \cup {Observations(<<2, 1, LargestObservation>>), Observations(<<4, 4, 4>>)}

\* the data of test_bootstrap_ci_mean
TestData == Observations(<<1, 2, 3, 4, 5>>)

\* the number of resamples of test_bootstrap_ci_mean
TestResamples == 100

\* the confidence level of the calls
Confidence95 == Frac(95, 100)

\* let result = anova_one_way(&groups), the one call of a run
Anova(groups) ==
    /\ ~anova_groups.some
    /\ ~boot_args.some
    /\ anova_groups' = Some(groups)
    /\ anova_result' = anova_one_way(groups)
    /\ UNCHANGED <<outsideAnalysis, boot_args, boot_result>>

\* let result = bootstrap_ci(&data, statistic, n_bootstrap, 0.95), the one
\* call of a run
Bootstrap(data, statistic, n_bootstrap) ==
    /\ ~anova_groups.some
    /\ ~boot_args.some
    /\ boot_args' = Some([data |-> data, statistic |-> statistic,
                          n_bootstrap |-> n_bootstrap])
    /\ boot_result' = bootstrap_ci(data, statistic, n_bootstrap, Confidence95)
    /\ UNCHANGED <<outsideAnalysis, anova_groups, anova_result>>

AnalysisNext ==
    \/ \E groups \in GroupLists : Anova(groups)
    \/ \E data \in DataPool, statistic \in {"mean", "median"},
          n_bootstrap \in 0..MaxResamples :
           Bootstrap(data, statistic, n_bootstrap)
    \/ \E statistic \in {"mean", "median"} :
           Bootstrap(TestData, statistic, TestResamples)

AnalysisSpec == Init /\ [][AnalysisNext]_vars

(***************************************************************************)
(* Properties of JobStatus and BuildScheduler                              *)
(***************************************************************************)
\* a step that is one mark_running / mark_success / mark_failure call
MarkStep ==
    \E id \in PoolIds :
        \/ MarkRunning(id)
        \/ \E d \in Durations : MarkSuccess(id, d)
        \/ \E e \in Errors : MarkFailure(id, e)

Kind(id) == statuses[id].result.kind

\* C1: once a JobStatus is Success or Failure, no mark_* call changes its
\* lifecycle state (it neither returns to Pending or Running nor swaps its
\* terminal outcome for the other one).
C1_TerminalNeverReverts ==
    [][MarkStep =>
         \A id \in DOMAIN statuses :
             is_complete(statuses[id]) =>
                 statuses'[id].result.kind = statuses[id].result.kind]_vars

C3_CountsPartition ==
    /\ pending_count + running_count + success_count + failure_count = total_jobs
    /\ completed_count = success_count + failure_count

\* one job running, one succeeded, one failed
C3_Witness ==
    /\ running_count = 1
    /\ success_count = 1
    /\ failure_count = 1
    /\ total_jobs >= 3

\* the mean of the durations of the jobs that are complete and carry one
MeanOfCompleted ==
    LET done == {id \in DOMAIN statuses :
                    is_complete(statuses[id]) /\ statuses[id].duration_ms.some}
    IN IF done = {} THEN None
       ELSE Some([sum |-> SumDurations(done), len |-> Cardinality(done)])

\* equality of two optional fractions
SameAverage(a, b) ==
    IF a.some /\ b.some
    THEN a.value.sum * b.value.len = b.value.sum * a.value.len
    ELSE a.some = b.some

\* C4: average_duration_ms is the mean duration of exactly the jobs that
\* are complete and carry a duration, and no value when there is none.
C4_AverageOverCompleted == SameAverage(average_duration_ms, MeanOfCompleted)

(***************************************************************************)
(* Properties of PathfinderSelector::select                                *)
(***************************************************************************)
\* the ids of the selected configurations
SelectedIds == {input[selected.value[n]].id : n \in 1..Len(selected.value)}

\* the last select call was given the generator's full matrix
OnGenerated == selected.some /\ gen_configs # <<>> /\ input = gen_configs

\* the indices of configs, in source order, whose id is in the set ids
IndicesWithIdIn(configs, ids) ==
    SelectSeq([i \in 1..Len(configs) |-> i], LAMBDA i : configs[i].id \in ids)

\* the ids of configs that satisfy each tier condition of the strategies
Tier1Ids(configs) ==
    {configs[i].id : i \in {j \in 1..Len(configs) : IsBaselineOrStandard(configs[j].id)}}
ExtremeOrMaxIds(configs) ==
    {configs[i].id : i \in {j \in 1..Len(configs) : IsExtremeOrMax(configs[j].id)}}
SingleFactorPrefixIds(configs) ==
    {configs[i].id : i \in {j \in 1..Len(configs) : IsSingleFactorPrefix(configs[j].id)}}
SizeIds(configs) ==
    {configs[i].id : i \in {j \in 1..Len(configs) : IsSize(configs[j].id)}}
PerfIds(configs) ==
    {configs[i].id : i \in {j \in 1..Len(configs) : IsPerf(configs[j].id)}}
ExtremeIds(configs) ==
    {configs[i].id : i \in {j \in 1..Len(configs) : IsExtreme(configs[j].id)}}

\* for each keyword in list order that some id contains, the first index in
\* source order whose id contains it
KeywordTier(configs) ==
    LET hits == [k \in 1..Len(single_factor_keywords) |->
                    {i \in 1..Len(configs) :
                        Contains(configs[i].id, single_factor_keywords[k])}]
        ks == SelectSeq([k \in 1..Len(single_factor_keywords) |-> k],
                        LAMBDA k : hits[k] # {})
    IN [n \in 1..Len(ks) |-> CHOOSE i \in hits[ks[n]] : \A j \in hits[ks[n]] : i <= j]

\* the five Balanced tiers, concatenated in priority order
BalancedConcat(configs) ==
    IndicesWithIdIn(configs, Tier1Ids(configs))
    \o KeywordTier(configs)
    \o IndicesWithIdIn(configs, SizeIds(configs))
    \o IndicesWithIdIn(configs, PerfIds(configs))
    \o IndicesWithIdIn(configs, ExtremeIds(configs))

\* everything a strategy's tiers yield when no budget cuts them
Candidates(strategy, configs) ==
    CASE strategy = "BaselineAndExtremes" ->
             IndicesWithIdIn(configs, Tier1Ids(configs))
             \o IndicesWithIdIn(configs, ExtremeOrMaxIds(configs))
      [] strategy = "SingleFactorCoverage" ->
             IndicesWithIdIn(configs, Tier1Ids(configs))
             \o IndicesWithIdIn(configs, SingleFactorPrefixIds(configs))
      [] strategy = "Balanced" -> BalancedConcat(configs)

\* no two configurations of the list share an id
DistinctIds(configs) ==
    \A i, j \in 1..Len(configs) : configs[i].id = configs[j].id => i = j

\* C5: whatever the strategy, the requested budget K and the input list,
\* select returns at most max(K, 1) configurations.
C5_AtMostBudget ==
    selected.some => Len(selected.value) <= Max(requested, 1)

\* a budget of 1 cutting a selection whose first tier alone yields two
C5_Witness ==
    /\ selected.some
    /\ requested = 1
    /\ Len(IndicesWithIdIn(input, Tier1Ids(input))) >= 2
    /\ Len(selected.value) = 1

\* C6: a requested budget of 0 is clamped to 1: balanced(0) over the full
\* generated set selects exactly one configuration, and over that set every
\* strategy and budget selects at least one.
C6_ZeroBudgetSelectsOne ==
    OnGenerated =>
        /\ Len(selected.value) >= 1
        /\ (requested = 0 /\ selector.value = balanced(0))
               => Len(selected.value) = 1

\* balanced(0) has been run over the generated set
C6_Witness ==
    /\ OnGenerated
    /\ requested = 0
    /\ selector.value.strategy = "Balanced"

\* C7 as stated: when the budget exceeds the number of input
\* configurations, select returns every input configuration.
C7_OverRequestReturnsAll ==
    (selected.some /\ requested > Len(input)) =>
        {selected.value[n] : n \in 1..Len(selected.value)} = 1..Len(input)

\* C7 as amended: when the budget is at least the number of candidates the
\* strategy's tiers yield (for BaselineAndExtremes and SingleFactorCoverage:
\* whenever it exceeds the number of inputs), select returns exactly those
\* candidates, uncut and in tier order; inputs matching no tier stay out.
C7_OverRequestReturnsCandidates ==
    selected.some =>
        LET strategy == selector.value.strategy
            cand == Candidates(strategy, input)
        IN /\ selector.value.max_configs >= Len(cand) => selected.value = cand
           /\ (strategy # "Balanced" /\ requested > Len(input))
                  => selected.value = cand

\* an over-request answered with a proper, non-empty part of the input
C7_Witness ==
    /\ selected.some
    /\ requested > Len(input)
    /\ Len(selected.value) >= 1
    /\ \E i \in 1..Len(input) : \A n \in 1..Len(selected.value) : selected.value[n] # i

\* C8 as stated: with a budget of at least 2, an input list holding the ids
\* baseline and standard-release has both in the selection.
C8_BothBaselinesSelected ==
    (selected.some /\ requested >= 2
        /\ {"baseline", "standard-release"} \subseteq {input[i].id : i \in 1..Len(input)})
    => {"baseline", "standard-release"} \subseteq SelectedIds

\* C8 as amended: the same for input lists whose ids are pairwise distinct;
\* in particular balanced(15) over the generated set returns at most 15
\* configurations, baseline and standard-release among them.
C8_BothBaselinesSelectedDistinct ==
    /\ (selected.some /\ requested >= 2 /\ DistinctIds(input)
          /\ {"baseline", "standard-release"} \subseteq {input[i].id : i \in 1..Len(input)})
       => {"baseline", "standard-release"} \subseteq SelectedIds
    /\ (OnGenerated /\ selector.value = balanced(DefaultMaxConfigs))
       => /\ Len(selected.value) <= DefaultMaxConfigs
          /\ {"baseline", "standard-release"} \subseteq SelectedIds

\* balanced(15) has been run over the generated set
C8_Witness ==
    /\ OnGenerated
    /\ selector.value = balanced(DefaultMaxConfigs)
    /\ requested = DefaultMaxConfigs

FactorsChanged(c) ==
    {f \in {"opt_level", "lto", "codegen_units", "pgo", "target_cpu", "strip"} :
        c[f] # StandardRelease[f]}

\* C10: over the generated set, every configuration SingleFactorCoverage
\* selects besides baseline and standard-release differs from
\* standard-release in exactly one factor, and they come in source order.
C10_CoverageIsSingleFactor ==
    (OnGenerated /\ selector.value.strategy = "SingleFactorCoverage") =>
        LET sel == selected.value
            rest == {n \in 1..Len(sel) : ~IsBaselineOrStandard(input[sel[n]].id)}
        IN /\ \A n \in rest : Cardinality(FactorsChanged(input[sel[n]])) = 1
           /\ \A n, m \in rest : n < m => sel[n] < sel[m]

(***************************************************************************)
(* Properties of ConfigGenerator::generate_matrix and BuildMatrix          *)
(***************************************************************************)
\* how many configurations of the list carry the id
CountId(configs, id) == Cardinality({i \in 1..Len(configs) : configs[i].id = id})

\* C11: whenever generate_matrix has run on a generator, the generator holds
\* between 80 and 120 configurations with pairwise distinct ids, and the ids
\* baseline, standard-release, min-opt and max-opt each appear exactly once.
C11_CountAndUniqueIds ==
    \A g \in GeneratorIds :
        gen_calls[g] > 0 =>
            /\ count(generators[g]) \in 80..120
            /\ DistinctIds(generators[g])
            /\ \A id \in {"baseline", "standard-release", "min-opt", "max-opt"} :
                   CountId(generators[g], id) = 1

\* a generator whose matrix has been generated more than once
C11_Witness ==
    \E g \in GeneratorIds : gen_calls[g] >= 2 /\ count(generators[g]) > 0

\* C12: generation is deterministic and idempotent: all generators that
\* have generated hold the same ordered list however often each was asked,
\* and a repeated generate_matrix call leaves both the list and count()
\* as they were after the first call.
C12_DeterministicIdempotent ==
    /\ [](\A g, h \in GeneratorIds :
            (gen_calls[g] > 0 /\ gen_calls[h] > 0) => generators[g] = generators[h])
    /\ [][\A g \in GeneratorIds :
            (GenerateMatrix(g) /\ gen_calls[g] > 0) =>
                /\ generators'[g] = generators[g]
                /\ count(generators'[g]) = count(generators[g])]_vars

\* one generator has generated once, the other twice
C12_Witness ==
    /\ gen_calls["first"] = 1
    /\ gen_calls["second"] = 2
    /\ count(generators["first"]) > 0

\* the job ids of a build matrix
JobIds(jobs) == {jobs[k].job_id : k \in 1..Len(jobs)}

\* C19: over C configurations with pairwise distinct ids BuildMatrix::generate
\* yields exactly 10 * C jobs, one per (benchmark, config) pair, with pairwise
\* distinct job ids; jobs_for_benchmark returns C jobs for each of the 10
\* benchmarks and jobs_for_config returns 10 jobs for each config id.
C19_MatrixIsCrossProduct ==
    (build_matrix.some /\ DistinctIds(matrix_input)) =>
        LET jobs == build_matrix.value
            C == Len(matrix_input)
        IN /\ Len(BENCHMARKS) = 10
           /\ Len(jobs) = 10 * C
           /\ {<<jobs[k].benchmark, jobs[k].config_id>> : k \in 1..Len(jobs)}
                  = {<<BENCHMARKS[b], matrix_input[c].id>> :
                        b \in 1..Len(BENCHMARKS), c \in 1..C}
           /\ Cardinality(JobIds(jobs)) = Len(jobs)
           /\ \A b \in 1..Len(BENCHMARKS) :
                  Len(jobs_for_benchmark(jobs, BENCHMARKS[b])) = C
           /\ \A c \in 1..C :
                  Len(jobs_for_config(jobs, matrix_input[c].id)) = 10

\* a build matrix generated from a generator's full set
C19_Witness ==
    /\ build_matrix.some
    /\ \E g \in GeneratorIds : gen_calls[g] > 0 /\ matrix_input = generators[g]
    /\ Len(build_matrix.value) >= 800

(***************************************************************************)
(* Properties of Measurement::from_output                                  *)
(***************************************************************************)
Labels == {"STARTUP_TIME_US", "COMPUTE_TIME_US", "RESULT"}

\* the line is an entry "LABEL: value" of the label
CarriesLabel(line, label) == StartsWith(line, label \o ":")

\* the value of an entry: what stands behind "LABEL:", trimmed
EntryValue(line, label) == trim(SubSeq(line, Len(label) + 2, Len(line)))

\* the label has no entry among the lines
Absent(ls, label) == \A k \in 1..Len(ls) : ~CarriesLabel(ls[k], label)

\* some entry of a numeric label has a value that is no u64
Unparsable(ls) ==
    \E label \in {"STARTUP_TIME_US", "COMPUTE_TIME_US"}, k \in 1..Len(ls) :
        CarriesLabel(ls[k], label) /\ ~ParseU64(EntryValue(ls[k], label)).some

\* the lines that carry one of the three labels, in their order
LabelledOnly(ls) ==
    SelectSeq(ls, LAMBDA l : \E label \in Labels : CarriesLabel(l, label))

\* C13: from_output returns an error whenever one of the three labelled
\* fields is absent or has a value that does not parse as its type, and
\* otherwise a Measurement with total_us = startup_us + compute_us; lines
\* that carry none of the labels never affect the outcome.
C13_ErrorIffAbsentOrUnparsable ==
    parsed.some =>
        LET ls == lines(report)
            bad == (\E label \in Labels : Absent(ls, label)) \/ Unparsable(ls)
        IN /\ bad => ~parsed.value.ok
           /\ ~bad => /\ parsed.value.ok
                      /\ parsed.value.value.total_us
                             = parsed.value.value.startup_us
                               + parsed.value.value.compute_us
           /\ from_output(JoinLines(LabelledOnly(ls), TRUE)) = parsed.value

\* the permutations of 1..n
LinePermutations(n) ==
    {p \in [1..n -> 1..n] : \A i, j \in 1..n : p[i] = p[j] => i = j}

\* C14: parsing is order-independent among lines: every permutation of a
\* report's lines gives the same from_output outcome.
C14_OrderIndependent ==
    parsed.some =>
        LET ls == lines(report)
        IN \A p \in LinePermutations(Len(ls)) :
               from_output(JoinLines([k \in 1..Len(ls) |-> ls[p[k]]], TRUE))
                   = parsed.value

(***************************************************************************)
(* Properties of MeasurementStats                                          *)
(***************************************************************************)
\* the compute times of the measurements
ComputeTimes(ms) == {ms[i].compute_us : i \in 1..Len(ms)}

RECURSIVE SumOfSquares(_)
\* the sum of the squares of the compute times
SumOfSquares(ms) ==
    IF Len(ms) = 0 THEN 0
    ELSE ms[1].compute_us * ms[1].compute_us + SumOfSquares(Tail(ms))

\* the population coefficient of variation of the compute times is below
\* the threshold t: with n values of sum S and sum of squares Q the squared
\* CV is (n*Q - S*S) / (S*S), and the CV is 0 when the mean is 0.
PopulationCvBelow(ms, t) ==
    LET n == Len(ms)
        S == Sum([i \in 1..n |-> ms[i].compute_us])
        Q == SumOfSquares(ms)
    IN /\ t.num > 0
       /\ S > 0 => (n * Q - S * S) * t.den * t.den < t.num * t.num * S * S

\* the population coefficient of variation equals the threshold
PopulationCvEquals(ms, t) ==
    LET n == Len(ms)
        S == Sum([i \in 1..n |-> ms[i].compute_us])
        Q == SumOfSquares(ms)
    IN IF S > 0
       THEN t.num >= 0 /\ (n * Q - S * S) * t.den * t.den = t.num * t.num * S * S
       ELSE t.num = 0

C17_StatsFollowMeasurements ==
    /\ [](job_result.some =>
            LET r == job_result.value
            IN /\ ~r.stats.some <=> Len(r.measurements) = 0
               /\ r.stats.some =>
                    /\ Ok(r.stats.value) = from_measurements(r.measurements)
                    /\ r.stats.value.count = measurement_count(r))
    /\ [][\A m \in Measurements :
            AddMeasurement(m) =>
                job_result'.value.measurements
                    = Append(job_result.value.measurements, m)]_vars

\* a job result with three measurements of different compute times
C17_Witness ==
    /\ job_result.some
    /\ measurement_count(job_result.value) >= 3
    /\ job_result.value.stats.some
    /\ job_result.value.stats.value.min_compute_us
           < job_result.value.stats.value.max_compute_us

\* C18: the collection is an insertion-ordered set keyed by job id: no two
\* held results share a job id, get_result(id) returns the result with that
\* job id or nothing if none was added, total_measurements is the sum of the
\* results' measurement counts, and add_result puts the result last.
C18_InsertionOrderedSetById ==
    /\ [](/\ \A i, j \in 1..Len(results) :
                results[i].job.job_id = results[j].job.job_id => i = j
          /\ \A i \in 1..Len(results) :
                get_result(results, results[i].job.job_id) = Some(results[i])
          /\ \A job \in ResultJobs :
                (\A i \in 1..Len(results) : results[i].job # job)
                    => get_result(results, job.job_id) = None
          /\ total_measurements(results)
                = Sum([i \in 1..Len(results) |-> Len(results[i].measurements)]))
    /\ [][AddResult => results' = Append(results, job_result.value)]_vars

(***************************************************************************)
(* Properties of execute_job                                               *)
(***************************************************************************)
\* the call has returned after its build succeeded and before the loop
\* used up its max_iterations runs
StoppedBeforeCap ==
    /\ pc = "done"
    /\ ~(returned.value = Err("io error") /\ runs_started = 0)
    /\ ~(returned.value = Err("Build failed for " \o job_result.value.job.job_id))
    /\ runs_started < exec_config.value.max_iterations

\* the loop's early-stop condition holds of the job's current stats
StableAtStop ==
    /\ iteration >= exec_config.value.min_iterations
    /\ job_result.value.stats.some
    /\ is_stable(job_result.value.stats.value, exec_config.value.max_cv)

ParseFailed(output) ==
    /\ output.some
    /\ output.value.kind = "success"
    /\ ~from_output(output.value.stdout).ok

\* the run that just finished could not be launched or exited without success
RunFailed(output) ==
    output.some /\ output.value.kind \in {"io_error", "failed"}

\* a step in which a run in flight ends
RunEnds == pc = "running" /\ pc' # "running"

\* C21: when a run's report fails to parse, no measurement is appended and
\* the job's measurements and stats are unchanged; the iteration is used up
\* and nothing else: the loop goes on with the next iteration while one is
\* left, and returns the unchanged job result when none is.
C21_ParseFailureIsLocal ==
    [][(RunEnds /\ ParseFailed(run_output'))
          => /\ job_result' = job_result
             /\ runs_started' = runs_started
             /\ IF iteration < exec_config.value.max_iterations
                THEN /\ pc' = "loop"
                     /\ iteration' = iteration + 1
                     /\ returned' = None
                ELSE /\ pc' = "done"
                     /\ returned' = Some(Ok(job_result.value))]_vars

\* a job holding a measurement has had an unparsable report and goes on
C21_Witness ==
    /\ pc = "loop"
    /\ ParseFailed(run_output)
    /\ measurement_count(job_result.value) >= 1
    /\ iteration = runs_started + 1
    /\ iteration <= exec_config.value.max_iterations

\* C22: when the external build or an external run of a job fails, the job
\* ends with a failure outcome and no further iteration of it is started.
C22_ExternalFailureEndsJob ==
    [][(RunEnds /\ RunFailed(run_output'))
          => /\ pc' = "done"
             /\ ~returned'.value.ok]_vars

\* C28: whenever execute_job stops early on the stability predicate, the job
\* holds at least min_iterations measurements.
C28_EarlyStopHasMinSamples ==
    (pc = "done" /\ returned.value.ok /\ StoppedBeforeCap /\ StableAtStop)
        => measurement_count(job_result.value) >= exec_config.value.min_iterations

(***************************************************************************)
(* Properties of the study loop of main                                    *)
(***************************************************************************)
\* the progress lines printed so far name the first jobs of the matrix, one
\* line per job, in matrix order
AttemptedInOrder ==
    /\ Len(progress) \in {idx, idx + 1}
    /\ Len(progress) <= Len(study_jobs.value)
    /\ \A i \in 1..Len(progress) :
          /\ progress[i].job_num = i
          /\ progress[i].benchmark = study_jobs.value[i].benchmark
          /\ progress[i].config_id = study_jobs.value[i].config_id

\* the loop over the matrix has ended normally
StudyEnded ==
    study_jobs.some /\ pc = "idle" /\ idx = Len(study_jobs.value)

\* C23: a job failure never aborts the study.  Every job of the matrix is
\* attempted once, in matrix order, whatever the outcome of earlier jobs:
\* after each job, failed or not, the loop goes on to the next one, and main
\* leaves the loop early only on a failed flush of its own progress line.
\* completed + failed counts the jobs taken, so equals the total at the
\* end; the results collection holds the completed jobs, each with at least
\* one measurement and present stats, and no failed job.
C23_FailuresNeverAbortStudy ==
    /\ [](study_jobs.some =>
            /\ AttemptedInOrder
            /\ completed + failed = idx
            /\ Len(results) = completed
            /\ \A i \in 1..Len(results) :
                  /\ measurement_count(results[i]) >= 1
                  /\ results[i].stats.some
                  /\ \E k \in 1..idx : results[i].job = study_jobs.value[k])
    /\ [](StudyEnded => /\ completed + failed = Len(study_jobs.value)
                        /\ Len(progress) = Len(study_jobs.value))
    /\ [][(study_jobs.some /\ pc = "done")
             => /\ pc' = "idle"
                /\ idx' = idx + 1
                /\ completed' + failed' = completed + failed + 1
                /\ (~returned.value.ok \/ measurement_count(returned.value.value) = 0)
                      => (failed' = failed + 1 /\ results' = results)
                /\ (returned.value.ok /\ measurement_count(returned.value.value) > 0)
                      => results' = Append(results, returned.value.value)]_vars
    /\ [][pc' = "aborted" => (pc = "idle" \/ pc = "aborted")]_vars
    /\ (study_jobs.some ~> (pc = "aborted" \/ StudyEnded))

\* a study of two jobs has ended with its first job failed and its second
\* job completed
C23_Witness ==
    /\ StudyEnded
    /\ idx = 2
    /\ failed = 1
    /\ completed = 1
    /\ Len(results) = 1
    /\ results[1].job = study_jobs.value[2]

(***************************************************************************)
(* Properties of anova_one_way and bootstrap_ci                            *)
(***************************************************************************)
\* every observation of the group equals its first one: the group has no
\* variance
ConstantGroup(group) == \A i \in 1..Len(group) : group[i] = group[1]

\* the input for which the contract of anova_one_way asks for no result
Degenerate(groups) ==
    \/ Len(groups) < 2
    \/ \E g \in 1..Len(groups) : Len(groups[g]) = 0
    \/ Len(Flatten(groups)) - Len(groups) = 0
    \/ \A g \in 1..Len(groups) : ConstantGroup(groups[g])

\* C24: anova_one_way returns no result exactly when there are fewer than 2
\* groups, or a group is empty, or df_within = 0, or the within-group mean
\* square is 0 (no group has any variance); otherwise df_between = k - 1,
\* df_within = n_total - k, eta squared lies in [0, 1] and significant is
\* F > 3.
C24_AnovaContract ==
    anova_groups.some =>
        LET groups == anova_groups.value
            r == anova_result.value
        IN /\ ~anova_result.some <=> Degenerate(groups)
           /\ anova_result.some =>
                /\ r.df_between = Len(groups) - 1
                /\ r.df_within = Len(Flatten(groups)) - Len(groups)
                /\ r.significant <=> FracLt(Frac(3, 1), r.f_statistic)
                /\ FracLe(Frac(0, 1), r.eta_squared)
                /\ FracLe(r.eta_squared, Frac(1, 1))

\* the arguments of the bootstrap_ci call
BootData == boot_args.value.data
BootRounds == 0..(boot_args.value.n_bootstrap - 1)

\* C25: bootstrap_ci returns no result on empty data; for non-empty data
\* and at least one resample, bootstrap_ci(data, mean, n, 0.95) returns
\* (lower, upper) with lower <= mean(data) <= upper.
C25_IntervalHoldsMean ==
    boot_args.some =>
        /\ Len(BootData) = 0 => ~boot_result.some
        /\ (Len(BootData) > 0 /\ boot_args.value.n_bootstrap >= 1
              /\ boot_args.value.statistic = "mean")
             => /\ boot_result.some
                /\ FracLe(boot_result.value[1], BasicMean(BootData).value)
                /\ FracLe(BasicMean(BootData).value, boot_result.value[2])

\* how often the value v occurs in the sequence xs
Occurrences(xs, v) == Cardinality({i \in 1..Len(xs) : xs[i] = v})

\* the sample holds the observations of the data, each as often as the data
IsPermutation(sample, data) ==
    /\ Len(sample) = Len(data)
    /\ \A i \in 1..Len(data) :
          Occurrences(sample, data[i]) = Occurrences(data, data[i])

\* the call has data whose length is no multiple of 17, and a resample
CoprimeCall ==
    /\ boot_args.some
    /\ Len(BootData) % 17 # 0
    /\ boot_args.value.n_bootstrap >= 1

\* C30 as stated: when the data length is no multiple of 17, every resample
\* is a permutation of the data, and for the mean (as for the sum) the
\* interval collapses to lower = upper = mean(data).
C30_PermutationCollapsesMean ==
    CoprimeCall =>
        /\ \A i \in BootRounds : IsPermutation(Resample(BootData, i), BootData)
        /\ boot_args.value.statistic = "mean"
             => /\ boot_result.value[1] = BasicMean(BootData).value
                /\ boot_result.value[2] = BasicMean(BootData).value

\* C30 as amended: when the data length is no multiple of 17, every resample
\* is a permutation of the data; for the median, whose value does not depend
\* on the order of the sample, the interval collapses to lower = upper =
\* median(data); for the mean each bound is the mean of a reordering of the
\* data, which rounding may set off from mean(data).
C30_PermutationCollapsesMedian ==
    CoprimeCall =>
        /\ \A i \in BootRounds : IsPermutation(Resample(BootData, i), BootData)
        /\ boot_result.some
        /\ boot_args.value.statistic = "median"
             => /\ boot_result.value[1] = BasicMedian(BootData).value
                /\ boot_result.value[2] = BasicMedian(BootData).value
        /\ boot_args.value.statistic = "mean"
             => \A b \in 1..2 : \E i \in BootRounds :
                    boot_result.value[b] = BasicMean(Resample(BootData, i)).value

\* the median of four distinct observations was bootstrapped three times
C30_Witness ==
    /\ CoprimeCall
    /\ Len(BootData) = 4
    /\ BootData[1] # BootData[2]
    /\ boot_args.value.n_bootstrap = 3
    /\ boot_args.value.statistic = "median"
    /\ boot_result.value[1] = boot_result.value[2]

(***************************************************************************)
(* Further properties of JobStatus and PathfinderSelector                  *)
(***************************************************************************)
\* C27: in every reachable state of a JobStatus, duration_ms is present if
\* and only if the state is Success; a Pending, Running or Failure status
\* never carries a duration.
C27_DurationIffSuccess ==
    \A id \in DOMAIN statuses :
        statuses[id].duration_ms.some <=> statuses[id].result.kind = "Success"

\* how many of the first n entries of a Balanced selection lie in the
\* segment of length size that follows the first before entries of the
\* concatenated tiers
AddedBy(n, before, size) == Min(n, before + size) - Min(n, before)

\* the number of configurations the keyword tier, the size tier and the
\* performance tier added to the Balanced selection
TierCounts ==
    LET n == Len(selected.value)
        tier1 == Len(IndicesWithIdIn(input, Tier1Ids(input)))
        keyword == Len(KeywordTier(input))
        size == Len(IndicesWithIdIn(input, SizeIds(input)))
        perf == Len(IndicesWithIdIn(input, PerfIds(input)))
    IN [keyword |-> AddedBy(n, tier1, keyword),
        size |-> AddedBy(n, tier1 + keyword, size),
        perf |-> AddedBy(n, tier1 + keyword + size, perf)]

\* C26: for every input list and budget, the Balanced selection contains at
\* most 6 configurations added by the keyword tier, at most 2 added by the
\* size tier and at most 2 added by the performance tier.
C26_BalancedTierCaps ==
    (selected.some /\ selector.value.strategy = "Balanced")
        => /\ selected.value = SubSeq(BalancedConcat(input), 1, Len(selected.value))
           /\ TierCounts.keyword <= 6
           /\ TierCounts.size <= 2
           /\ TierCounts.perf <= 2

\* C29: for every strategy, every budget and every input list whose ids are
\* pairwise distinct, select never returns the same configuration more than
\* once.
C29_SelectionDuplicateFree ==
    (selected.some /\ DistinctIds(input))
        => \A p, q \in 1..Len(selected.value) :
              selected.value[p] = selected.value[q] => p = q

====
